---------------------------- MODULE Spec2Model ----------------------------
(***************************************************************************)
(* A model of the gilt pricing engine, the issued universe, the price      *)
(* books and the bond-ladder event loop of src/gilts/gilts.py, and of the  *)
(* closing-price book of src/gilts/lse.py.                                 *)
(*                                                                         *)
(* Dates are proleptic Gregorian ordinals (datetime.date.toordinal), so a  *)
(* difference of two dates is the .days of the Python timedelta.  Money    *)
(* and ratios are exact rationals <<n, d>> in lowest terms with d > 0;     *)
(* the binary rounding of Python floats is not modelled.                   *)
(***************************************************************************)
EXTENDS Integers, Sequences, FiniteSets, TLC

VARIABLES
    gilt,       \* the Gilt / IndexLinkedGilt instance under analysis
    op,         \* name of the last pricing method called on it, or "idle"
    args,       \* the arguments of that call
    ret,        \* what the call returned
    hist,       \* the call made just before this one, when this one follows up on it
    ladder,             \* the BondLadder instance: today, schedule, settings, issued gilts
    solution,           \* the values the solver gives the variables of the problem
    status,             \* how far BondLadder.solve has got
    events,             \* solve: the list of events
    pc,                 \* solve: index of the next event of `for ev in events`
    balance,            \* solve: the cash balance
    accrued_income,     \* solve: taxable income accrued since the last tax year end
    tax_due,            \* solve: tax frozen at a tax year end and not yet paid, or None
    prev_date,          \* solve: date of the last event that started a new day
    ladder_cash_flows,  \* solve: the rows of the cash-flow timeline
    buy_df,             \* BondLadder.buy_df
    cash_flow_df,       \* BondLadder.cash_flow_df
    attributes,         \* which of cost, withdrawal_rate, yield_ the BondLadder has
    lp_status,  \* what prob.solve returned in the call of solve under way, 0 before
    book,       \* the GiltPrices instance being filled: datetime, tidms, prices
    feed,       \* the price entries not yet ingested
    supplied,   \* what the book was given so far, entry by entry
    bstatus,    \* the call that fills the book and how far it has got
    entries,    \* the instrument records given to Issued
    world,      \* what the universe is used with: the RPI series and the price book
    issued,     \* the Issued instance
    icall       \* the last call made on the universe and what it returned

gvars == <<gilt, op, args, ret, hist>>

rvars == <<buy_df, cash_flow_df, attributes, lp_status>>

lvars == <<ladder, solution, status, events, pc, balance, accrued_income, tax_due,
           prev_date, ladder_cash_flows, rvars>>

bvars == <<book, feed, supplied, bstatus>>

ivars == <<entries, world, issued, icall>>

vars == <<gvars, lvars, bvars, ivars>>

-----------------------------------------------------------------------------
(* Exact rational arithmetic.                                              *)

Abs(x) == IF x < 0 THEN -x ELSE x

RECURSIVE Gcd(_, _)
Gcd(a, b) == IF b = 0 THEN a ELSE Gcd(b, a % b)

RNorm(n, d) ==
    LET g == Gcd(Abs(n), Abs(d))
        s == IF d < 0 THEN -1 ELSE 1
    IN  <<s * (n \div g), s * (d \div g)>>

RInt(n) == <<n, 1>>
RZero == <<0, 1>>
ROne == <<1, 1>>

RAdd(x, y) ==
    LET g == Gcd(x[2], y[2])
    IN  RNorm(x[1] * (y[2] \div g) + y[1] * (x[2] \div g), (x[2] \div g) * y[2])

RNeg(x) == <<-x[1], x[2]>>

RSub(x, y) == RAdd(x, RNeg(y))

RMul(x, y) ==
    LET g1 == Gcd(Abs(x[1]), y[2])
        g2 == Gcd(Abs(y[1]), x[2])
    IN  IF x[1] = 0 \/ y[1] = 0 THEN RZero
        ELSE <<(x[1] \div g1) * (y[1] \div g2), (x[2] \div g2) * (y[2] \div g1)>>

RInv(x) == IF x[1] < 0 THEN <<-x[2], -x[1]>> ELSE <<x[2], x[1]>>

RDiv(x, y) == RMul(x, RInv(y))

RSign(x) == IF x[1] > 0 THEN 1 ELSE IF x[1] < 0 THEN -1 ELSE 0

RLe(x, y) == RSign(RSub(x, y)) <= 0
RLt(x, y) == RSign(RSub(x, y)) < 0

Pow10(k) == IF k = 4 THEN 10000 ELSE IF k = 5 THEN 100000 ELSE 1000000

\* floor(frac * 10^k) for a fraction 0 <= r/d < 1, one decimal digit at a time
RECURSIVE FracDigits(_, _, _, _)
FracDigits(r, d, k, acc) ==
    IF k = 0 THEN <<acc, r>>
    ELSE FracDigits((r * 10) % d, d, k - 1, acc * 10 + ((r * 10) \div d))

\* Python's round(x, k): to nearest, ties to even
RRound(x, k) ==
    LET a  == Abs(x[1])
        q  == a \div x[2]
        fd == FracDigits(a % x[2], x[2], k, 0)
        lo == q * Pow10(k) + fd[1]
        up == IF 2 * fd[2] > x[2] THEN 1
              ELSE IF 2 * fd[2] < x[2] THEN 0
              ELSE lo % 2
        m  == lo + up
    IN  RNorm((IF x[1] < 0 THEN -1 ELSE 1) * m, Pow10(k))

-----------------------------------------------------------------------------
(* The calendar: datetime.date and the ukcalendar primitives.              *)

Years == 2004..2008

IsLeap(y) == (y % 4 = 0) /\ ((y % 100 # 0) \/ (y % 400 = 0))

days_in_month(y, m) ==
    IF m = 2 THEN (IF IsLeap(y) THEN 29 ELSE 28)
    ELSE IF m \in {4, 6, 9, 11} THEN 30 ELSE 31

DaysBeforeYear(y) ==
    (y - 1) * 365 + ((y - 1) \div 4) - ((y - 1) \div 100) + ((y - 1) \div 400)

RECURSIVE DaysBeforeMonth(_, _)
DaysBeforeMonth(y, m) ==
    IF m = 1 THEN 0 ELSE DaysBeforeMonth(y, m - 1) + days_in_month(y, m - 1)

\* datetime.date(y, m, d).toordinal()
Date(y, m, d) == DaysBeforeYear(y) + DaysBeforeMonth(y, m) + d

FirstDay == Date(2004, 1, 1)
LastDay == Date(2008, 12, 31)
Days == FirstDay..LastDay

\* date.fromordinal(n) as [year, month, day]
Civil ==
    [n \in Days |->
        CHOOSE c \in { [year |-> y, month |-> m, day |-> n - Date(y, m, 1) + 1] :
                         y \in Years, m \in 1..12 } :
            1 <= c.day /\ c.day <= days_in_month(c.year, c.month)]

Min(a, b) == IF a < b THEN a ELSE b

\* ukcalendar.shift_month: move by whole months, clamping the day
shift_month(d, months) ==
    LET At(y, m, day) == Date(y, m, Min(day, days_in_month(y, m)))
        To(c, mi) == At(c.year + ((mi - (mi % 12)) \div 12), (mi % 12) + 1, c.day)
    IN  To(Civil[d], (Civil[d].month - 1) + months)

\* ukcalendar.shift_year: move by whole years, clamping 29 February
shift_year(d, years) ==
    LET At(y, m, day) == Date(y, m, Min(day, days_in_month(y, m)))
        To(c) == At(c.year + years, c.month, c.day)
    IN  To(Civil[d])

\* date.weekday(): Monday is 0
Weekday(d) == (d + 6) % 7

\* England and Wales bank holidays of the modelled years
BankHolidays ==
    { Date(2004, 1, 1), Date(2004, 4, 9), Date(2004, 4, 12), Date(2004, 5, 3),
      Date(2004, 5, 31), Date(2004, 8, 30), Date(2004, 12, 27), Date(2004, 12, 28),
      Date(2005, 1, 3), Date(2005, 3, 25), Date(2005, 3, 28), Date(2005, 5, 2),
      Date(2005, 5, 30), Date(2005, 8, 29), Date(2005, 12, 26), Date(2005, 12, 27),
      Date(2006, 1, 2), Date(2006, 4, 14), Date(2006, 4, 17), Date(2006, 5, 1),
      Date(2006, 5, 29), Date(2006, 8, 28), Date(2006, 12, 25), Date(2006, 12, 26),
      Date(2007, 1, 1), Date(2007, 4, 6), Date(2007, 4, 9), Date(2007, 5, 7),
      Date(2007, 5, 28), Date(2007, 8, 27), Date(2007, 12, 25), Date(2007, 12, 26),
      Date(2008, 1, 1), Date(2008, 3, 21), Date(2008, 3, 24), Date(2008, 5, 5),
      Date(2008, 5, 26), Date(2008, 8, 25), Date(2008, 12, 25), Date(2008, 12, 26) }

isukbankholiday(d) == d \in BankHolidays

is_business_day(d) == Weekday(d) < 5 /\ ~isukbankholiday(d)

RECURSIVE prev_business_day(_)
prev_business_day(d) ==
    IF is_business_day(d - 1) THEN d - 1 ELSE prev_business_day(d - 1)

RECURSIVE next_business_day(_)
next_business_day(d) ==
    IF is_business_day(d + 1) THEN d + 1 ELSE next_business_day(d + 1)


-----------------------------------------------------------------------------
(* The RPI series collaborator: monthly observations, index 1 = 2004-01.   *)

RpiMonths == 1..60

RpiValues == [i \in RpiMonths |-> RInt(183 + i + (i % 3))]

lookup_index(d) == (Civil[d].year - 2004) * 12 + Civil[d].month

\* the index of the last month for which the series has an observation
last_index(rpi_series) == lookup_index(rpi_series.last_date)

\* the growth of the index over one month at a yearly rate: (1 + rate)^(1/12),
\* which has no exact value here, is taken to the first order, 1 + rate/12
monthly_growth(rate) == RAdd(ROne, RDiv(rate, RInt(12)))

RECURSIVE Grown(_, _, _)
Grown(rpi, growth, months) ==
    IF months = 0 THEN rpi ELSE Grown(RMul(rpi, growth), growth, months - 1)

\* the stored value of a month that has one, and otherwise the last stored value
\* grown month by month at the assumed rate of inflation
extrapolate_from_index(rpi_series, i, rate) ==
    IF i <= last_index(rpi_series) THEN RpiValues[i]
    ELSE Grown(RpiValues[last_index(rpi_series)], monthly_growth(rate),
               i - last_index(rpi_series))

-----------------------------------------------------------------------------
(* class Gilt                                                              *)

SHORT == -1
STANDARD == 0
LONG == 1

min_coupon_days == 60

RECURSIVE Reverse(_)
Reverse(s) == IF s = <<>> THEN <<>> ELSE Append(Reverse(Tail(s)), Head(s))

\* CouponLoop leaving the loop already when the candidate equals the settlement date
RECURSIVE CouponLoopBreakOnEqual(_, _, _, _, _)
CouponLoopBreakOnEqual(g, settlement_date, prev_coupon_date, periods, next_coupon_dates) ==
    IF prev_coupon_date - g.issue_date >= min_coupon_days
    THEN LET Step(pv, nn) ==
                 IF pv <= settlement_date
                 THEN [prev |-> pv, next |-> nn]
                 ELSE CouponLoopBreakOnEqual(g, settlement_date, pv, periods + 1, nn)
         IN  Step(shift_month(g.maturity, -6 * (periods + 1)),
                  Append(next_coupon_dates, prev_coupon_date))
    ELSE [prev |-> prev_coupon_date, next |-> next_coupon_dates]

\* the while loop of Gilt.coupon_dates; next is built latest first
RECURSIVE CouponLoop(_, _, _, _, _)
CouponLoop(g, settlement_date, prev_coupon_date, periods, next_coupon_dates) ==
    IF prev_coupon_date - g.issue_date >= min_coupon_days
    THEN LET Step(pv, nn) ==
                 IF pv < settlement_date
                 THEN [prev |-> pv, next |-> nn]
                 ELSE CouponLoop(g, settlement_date, pv, periods + 1, nn)
         IN  Step(shift_month(g.maturity, -6 * (periods + 1)),
                  Append(next_coupon_dates, prev_coupon_date))
    ELSE [prev |-> prev_coupon_date, next |-> next_coupon_dates]

coupon_dates_raises_before_issue_only(g, settlement_date) ==
    ~(settlement_date >= g.issue_date)

coupon_dates_raises(g, settlement_date) ==
    ~(settlement_date >= g.issue_date) \/ ~(settlement_date <= g.maturity)

coupon_dates(g, settlement_date) ==
    LET Out(r) == [prev |-> r.prev, next |-> Reverse(r.next)]
    IN  Out(CouponLoop(g, settlement_date, g.maturity, 0, <<>>))

prev_next_coupon_date_raises(g, settlement_date) ==
    \/ coupon_dates_raises(g, settlement_date)
    \/ coupon_dates(g, settlement_date).next = <<>>

prev_next_coupon_date(g, settlement_date) ==
    LET Out(cd) == [prev |-> cd.prev, next |-> cd.next[1]]
    IN  Out(coupon_dates(g, settlement_date))

RECURSIVE PrevBusinessDays(_, _)
PrevBusinessDays(d, i) ==
    IF i = 0 THEN d ELSE PrevBusinessDays(prev_business_day(d), i - 1)

ex_dividend_date_calendar_days(coupon_date) == coupon_date - 7

ex_dividend_date(coupon_date) == PrevBusinessDays(coupon_date, 7)

period_(g, prev_coupon_date) ==
    IF prev_coupon_date - g.issue_date >= min_coupon_days THEN STANDARD
    ELSE IF prev_coupon_date <= g.issue_date THEN SHORT
    ELSE LONG

\* the accrued fraction of the dividend, Gilt.accrued_interest before its last line
accrued_fraction(g, settlement_date) ==
    LET Long(prev, full_coupon_days, xd_date, prev_full_coupon_days) ==
            IF settlement_date < prev
            THEN RNorm(settlement_date - g.issue_date, prev_full_coupon_days)
            ELSE IF settlement_date <= xd_date
                 THEN RAdd(RNorm(prev - g.issue_date, prev_full_coupon_days),
                           RNorm(settlement_date - prev, full_coupon_days))
                 ELSE RSub(RNorm(settlement_date - prev, full_coupon_days), ROne)
        Fraction(prev, next, full_coupon_days, xd_date, period) ==
            IF period = STANDARD
            THEN IF settlement_date > xd_date
                 THEN RSub(RNorm(settlement_date - prev, full_coupon_days), ROne)
                 ELSE RNorm(settlement_date - prev, full_coupon_days)
            ELSE IF period = SHORT
            THEN IF settlement_date <= xd_date
                 THEN RNorm(settlement_date - g.issue_date, full_coupon_days)
                 ELSE RNorm((settlement_date - g.issue_date) - (next - g.issue_date),
                            full_coupon_days)
            ELSE Long(prev, full_coupon_days, xd_date, prev - shift_month(prev, -6))
        Of(pn) == Fraction(pn.prev, pn.next, pn.next - pn.prev,
                           ex_dividend_date(pn.next), period_(g, pn.prev))
    IN  Of(prev_next_coupon_date(g, settlement_date))

Gilt_accrued_interest(g, settlement_date) ==
    RMul(accrued_fraction(g, settlement_date), RDiv(g.coupon, RInt(2)))

\* Gilt.cash_flows with the parameters it needs, so that its variants share the body:
\* ex_incl makes the ex-dividend date itself ex-dividend, par is the redemption entry
CashFlowsWith(g, settlement_date, ex_incl, par) ==
    IF settlement_date > ex_dividend_date(g.maturity) THEN <<>>
    ELSE
    LET Dividends(dates, half) == [i \in 1..Len(dates) |-> <<dates[i], half>>]
        First(prev, next_coupon_date, period, half) ==
            IF period = SHORT
            THEN RMul(RNorm(next_coupon_date - g.issue_date, next_coupon_date - prev), half)
            ELSE RMul(RAdd(RNorm(prev - g.issue_date, prev - shift_month(prev, -6)), ROne),
                      half)
        Flows(prev, next, ex, period, half) ==
            IF ex THEN Dividends(Tail(next), half) \o par
            ELSE IF period = STANDARD THEN Dividends(next, half) \o par
            ELSE << <<next[1], First(prev, next[1], period, half)>> >>
                     \o Dividends(Tail(next), half) \o par
        Ex(xd_date) == settlement_date > xd_date \/ (ex_incl /\ settlement_date = xd_date)
        Of(cd) == Flows(cd.prev, cd.next, Ex(ex_dividend_date(cd.next[1])),
                        period_(g, cd.prev), RDiv(g.coupon, RInt(2)))
    IN  Of(coupon_dates(g, settlement_date))

\* Gilt.cash_flows comparing settlement_date >= xd_date
Gilt_cash_flows_ex_on_xd(g, settlement_date) ==
    CashFlowsWith(g, settlement_date, TRUE, << <<g.maturity, RInt(100)>> >>)

\* Gilt.cash_flows without its final transactions.append((maturity, 100.0))
Gilt_cash_flows_no_redemption(g, settlement_date) ==
    CashFlowsWith(g, settlement_date, FALSE, <<>>)

\* Gilt.cash_flows without the return of [] that it starts with
Gilt_cash_flows_without_return(g, settlement_date) ==
    IF settlement_date > ex_dividend_date(g.maturity)
    THEN << <<g.maturity, RInt(100)>> >>
    ELSE CashFlowsWith(g, settlement_date, FALSE, << <<g.maturity, RInt(100)>> >>)

\* list.pop(0) leaves the tail
Gilt_cash_flows(g, settlement_date) ==
    IF settlement_date > ex_dividend_date(g.maturity) THEN <<>>
    ELSE
    LET Dividends(dates, half) == [i \in 1..Len(dates) |-> <<dates[i], half>>]
        Redemption == << <<g.maturity, RInt(100)>> >>
        First(prev, next_coupon_date, period, half) ==
            IF period = SHORT
            THEN RMul(RNorm(next_coupon_date - g.issue_date, next_coupon_date - prev), half)
            ELSE RMul(RAdd(RNorm(prev - g.issue_date, prev - shift_month(prev, -6)), ROne),
                      half)
        Flows(prev, next, xd_date, period, half) ==
            IF settlement_date > xd_date THEN Dividends(Tail(next), half) \o Redemption
            ELSE IF period = STANDARD THEN Dividends(next, half) \o Redemption
            ELSE << <<next[1], First(prev, next[1], period, half)>> >>
                     \o Dividends(Tail(next), half) \o Redemption
        Of(cd) == Flows(cd.prev, cd.next, ex_dividend_date(cd.next[1]),
                        period_(g, cd.prev), RDiv(g.coupon, RInt(2)))
    IN  Of(coupon_dates(g, settlement_date))

Gilt_cash_flows_raises(g, settlement_date) ==
    /\ ~(settlement_date > ex_dividend_date(g.maturity))
    /\ prev_next_coupon_date_raises(g, settlement_date)

-----------------------------------------------------------------------------
(* class IndexLinkedGilt                                                   *)

inflation_rate == <<3, 100>>

IndexLinkedGilt_lag(issue_date) == IF issue_date >= Date(2005, 9, 22) THEN 3 ELSE 8

ref_rpi(g, settlement_date, rate) ==
    IF g.lag = 3
    THEN LET Interpolate(weight, rpi0, rpi1) ==
                 RRound(RAdd(rpi0, RMul(weight, RSub(rpi1, rpi0))), 5)
             At(c, month_idx) ==
                 Interpolate(RNorm(c.day - 1, days_in_month(c.year, c.month)),
                             extrapolate_from_index(g.rpi_series, month_idx, rate),
                             extrapolate_from_index(g.rpi_series, month_idx + 1, rate))
         IN  At(Civil[settlement_date], lookup_index(settlement_date) - g.lag)
    ELSE LET At(month_idx) == RRound(extrapolate_from_index(g.rpi_series, month_idx, rate), 5)
         IN  At(lookup_index(prev_next_coupon_date(g, settlement_date).next) - g.lag)

index_ratio(g, settlement_date, rate) ==
    LET Rounded(ratio) == IF g.lag = 3 THEN RRound(ratio, 5) ELSE ratio
    IN  Rounded(RDiv(ref_rpi(g, settlement_date, rate), g.base_rpi))

IndexLinkedGilt_accrued_interest(g, settlement_date) ==
    RMul(Gilt_accrued_interest(g, settlement_date),
         index_ratio(g, settlement_date, inflation_rate))

IndexLinkedGilt_cash_flows(g, settlement_date, rate) ==
    LET Indexed(base, digits) ==
            [i \in 1..Len(base) |->
                <<base[i][1],
                  RRound(RMul(base[i][2], index_ratio(g, base[i][1], rate)), digits)>>]
    IN  Indexed(Gilt_cash_flows(g, settlement_date),
                IF Civil[g.issue_date].year >= 2002 THEN 6 ELSE 4)

-----------------------------------------------------------------------------
(* The methods as dispatched on the gilt's class.                          *)

accrued_interest(g, settlement_date) ==
    IF g.type_ = "Index-linked"
    THEN IndexLinkedGilt_accrued_interest(g, settlement_date)
    ELSE Gilt_accrued_interest(g, settlement_date)

\* dirty_price applying the index ratio to every index-linked gilt, whatever its lag
dirty_price_any_lag(g, clean, settlement_date) ==
    IF g.type_ = "Index-linked"
    THEN RAdd(RMul(clean, index_ratio(g, settlement_date, inflation_rate)),
              accrued_interest(g, settlement_date))
    ELSE RAdd(clean, accrued_interest(g, settlement_date))

dirty_price(g, clean, settlement_date) ==
    IF g.type_ = "Index-linked"
    THEN LET c == IF g.lag = 3
                  THEN RMul(clean, index_ratio(g, settlement_date, inflation_rate))
                  ELSE clean
         IN  RAdd(c, accrued_interest(g, settlement_date))
    ELSE RAdd(clean, accrued_interest(g, settlement_date))

\* clean_price that never divides by the index ratio
clean_price_nominal(g, dirty, settlement_date) ==
    RSub(dirty, accrued_interest(g, settlement_date))

clean_price(g, dirty, settlement_date) ==
    IF g.type_ = "Index-linked"
    THEN IF g.lag = 3
         THEN RDiv(RSub(dirty, accrued_interest(g, settlement_date)),
                   index_ratio(g, settlement_date, inflation_rate))
         ELSE RSub(dirty, accrued_interest(g, settlement_date))
    ELSE RSub(dirty, accrued_interest(g, settlement_date))

cash_flows(g, settlement_date) ==
    IF g.type_ = "Index-linked"
    THEN IndexLinkedGilt_cash_flows(g, settlement_date, inflation_rate)
    ELSE Gilt_cash_flows(g, settlement_date)

-----------------------------------------------------------------------------
(* The gilts and calls of the pricing specification.                       *)

NumIssueDates == 6
NumPrices == 2
SettlementMargin == 2

Maturities == { Date(2006, 9, 7), Date(2006, 8, 31) }

IssueDates == { Date(2005, 6, 9) + 30 * k : k \in 0..(NumIssueDates - 1) }

Prices == { RInt(95 + 6 * k) : k \in 0..(NumPrices - 1) }

\* the rates given to value
DiscountRates == { <<1, 10>> }

\* the issue dates of the gilts that pay one dividend: the shortest life that has
\* a dividend, with a short first period, and one with a long first period
LateIssueDates(m) == { m - min_coupon_days, shift_month(m, -6) + 1 }

ConventionalGilts ==
    { [type_ |-> "Conventional", coupon |-> <<17, 4>>, maturity |-> m,
       issue_date |-> i, lag |-> 0, base_rpi |-> RZero] :
         m \in Maturities, i \in IssueDates }
    \cup UNION { { [type_ |-> "Conventional", coupon |-> <<17, 4>>, maturity |-> m,
                    issue_date |-> i, lag |-> 0, base_rpi |-> RZero] :
                      i \in LateIssueDates(m) } : m \in Maturities }

\* the RPI series of the pricing specification: every month it is asked for is published
Published == [last_date |-> Date(2008, 12, 1)]

IndexLinkedGilts ==
    { [type_ |-> "Index-linked", coupon |-> <<2, 1>>, maturity |-> m,
       issue_date |-> i, lag |-> IndexLinkedGilt_lag(i),
       base_rpi |-> RpiValues[lookup_index(i) - 3], rpi_series |-> Published] :
         m \in Maturities, i \in IssueDates }

Gilts == ConventionalGilts \cup IndexLinkedGilts

\* settlement dates offered to the methods: the gilt's life and a margin around it
Settlements(g) == (g.issue_date - SettlementMargin)..(g.maturity + SettlementMargin)

Raised == [status |-> "raised"]
Returned(v) == [status |-> "ok", value |-> v]

accrued_interest_call(g, s) ==
    IF prev_next_coupon_date_raises(g, s) THEN Raised
    ELSE Returned(accrued_interest(g, s))

dirty_price_call(g, p, s) ==
    IF prev_next_coupon_date_raises(g, s) THEN Raised
    ELSE Returned(dirty_price(g, p, s))

clean_price_call(g, p, s) ==
    IF prev_next_coupon_date_raises(g, s) THEN Raised
    ELSE Returned(clean_price(g, p, s))

cash_flows_call(g, s) ==
    IF Gilt_cash_flows_raises(g, s) THEN Raised
    ELSE Returned(cash_flows(g, s))

ThisCall == [op |-> op, args |-> args, ret |-> ret]

-----------------------------------------------------------------------------
(* Gilt.ytm and Gilt.value: where they fail.  The yield and the present    *)
(* value themselves come of numeric root finding and of xnpv, and are      *)
(* left as the names "ytm" and "npv".                                      *)

\* prev_coupon_date, next_coupon_date and n of Gilt.ytm where it asserts on them:
\* after the adjustment of the first period, the LONG reframing included
ytm_period(g, settlement_date) ==
    LET Of(prev, next, n) ==
            IF settlement_date <= ex_dividend_date(next)
                /\ period_(g, prev) = LONG
                /\ settlement_date <= prev
            THEN [prev |-> shift_month(prev, -6), next |-> prev, n |-> n + 1]
            ELSE [prev |-> prev, next |-> next, n |-> n]
        From(cd) == Of(cd.prev, cd.next[1], Len(cd.next) - 1)
    IN  From(coupon_dates(g, settlement_date))

\* whether Gilt.ytm fails: on the assertions of coupon_dates, on an empty list of
\* coupon dates, on one of its own assertions, or on the division by r = 0 days
Gilt_ytm_raises(g, settlement_date) ==
    IF prev_next_coupon_date_raises(g, settlement_date) THEN TRUE
    ELSE LET Check(prev, next, n) ==
                 \/ ~(prev < settlement_date)
                 \/ ~(settlement_date <= next)
                 \/ ~(next - settlement_date >= 0)
                 \/ ~(next - prev >= 181 /\ next - prev <= 184)
                 \/ (n = 0 /\ next - settlement_date = 0)
             Reframed(prev_prev, prev, n) ==
                 \/ ~(prev_prev <= g.issue_date)
                 \/ ~(g.issue_date <= prev)
                 \/ Check(prev_prev, prev, n + 1)
             Of(prev, next, n, period) ==
                 IF settlement_date > ex_dividend_date(next) THEN Check(prev, next, n)
                 ELSE IF period = STANDARD THEN Check(prev, next, n)
                 ELSE IF period = SHORT
                 THEN \/ ~(prev <= g.issue_date)
                      \/ ~(g.issue_date <= next)
                      \/ Check(prev, next, n)
                 ELSE IF settlement_date <= prev
                 THEN Reframed(shift_month(prev, -6), prev, n)
                 ELSE Check(prev, next, n)
             From(cd) == Of(cd.prev, cd.next[1], Len(cd.next) - 1, period_(g, cd.prev))
         IN  From(coupon_dates(g, settlement_date))

\* the outcomes of ytm(dirty_price, settlement_date); IndexLinkedGilt.ytm is xirr
\* over (settlement_date, -dirty_price) and the cash flows, and what xirr makes of
\* the first flow alone is left open
ytm_outcomes(g, settlement_date) ==
    IF g.type_ = "Index-linked"
    THEN IF Gilt_cash_flows_raises(g, settlement_date) THEN { Raised }
         ELSE IF Gilt_cash_flows(g, settlement_date) = <<>>
         THEN { Raised, Returned("ytm") }
         ELSE { Returned("ytm") }
    ELSE IF Gilt_ytm_raises(g, settlement_date) THEN { Raised }
         ELSE { Returned("ytm") }

\* value(rate, settlement_date): xnpv over (settlement_date, 0) and the cash flows
value_call(g, settlement_date) ==
    IF Gilt_cash_flows_raises(g, settlement_date) THEN Raised ELSE Returned("npv")

-----------------------------------------------------------------------------
(* The state of the pricing specification.                                 *)

\* no ladder has been constructed
\* the status that prob.solve returns: pulp's LpStatusOptimal and LpStatusInfeasible,
\* and LpStatusNotSolved for no call of the solver yet
LpStatusNotSolved == 0

LpStatusOptimal == 1

LpStatusInfeasible == -1

LpStatuses == { LpStatusOptimal, LpStatusInfeasible }

NoLadder ==
    /\ ladder = <<>>
    /\ solution = <<>>
    /\ status = "none"
    /\ events = <<>>
    /\ pc = 0
    /\ balance = RZero
    /\ accrued_income = RZero
    /\ tax_due = <<>>
    /\ prev_date = 0
    /\ ladder_cash_flows = <<>>
    /\ buy_df = <<>>
    /\ cash_flow_df = <<>>
    /\ attributes = {}
    /\ lp_status = LpStatusNotSolved

\* no price book is being filled
NoBook ==
    /\ book = <<>>
    /\ feed = <<>>
    /\ supplied = <<>>
    /\ bstatus = <<>>

\* no universe has been constructed
NoIssued ==
    /\ entries = <<>>
    /\ world = <<>>
    /\ issued = <<>>
    /\ icall = <<>>

GInit ==
    /\ gilt \in Gilts
    /\ op = "idle"
    /\ args = <<>>
    /\ ret = <<>>
    /\ hist = <<>>
    /\ NoLadder
    /\ NoBook
    /\ NoIssued

CallCouponDates ==
    /\ op = "idle"
    /\ \E s \in Settlements(gilt) :
        /\ op' = "coupon_dates"
        /\ args' = <<s>>
        /\ ret' = IF coupon_dates_raises(gilt, s) THEN Raised
                  ELSE Returned(coupon_dates(gilt, s))
    /\ UNCHANGED <<gilt, hist>>
    /\ UNCHANGED <<lvars, bvars, ivars>>

CallAccruedInterest ==
    /\ op = "idle"
    /\ \E s \in Settlements(gilt) :
        /\ op' = "accrued_interest"
        /\ args' = <<s>>
        /\ ret' = accrued_interest_call(gilt, s)
    /\ UNCHANGED <<gilt, hist>>
    /\ UNCHANGED <<lvars, bvars, ivars>>

CallDirtyPrice ==
    /\ op = "idle"
    /\ \E s \in Settlements(gilt), p \in Prices :
        /\ op' = "dirty_price"
        /\ args' = <<p, s>>
        /\ ret' = dirty_price_call(gilt, p, s)
    /\ UNCHANGED <<gilt, hist>>
    /\ UNCHANGED <<lvars, bvars, ivars>>

CallCleanPrice ==
    /\ op = "idle"
    /\ \E s \in Settlements(gilt), p \in Prices :
        /\ op' = "clean_price"
        /\ args' = <<p, s>>
        /\ ret' = clean_price_call(gilt, p, s)
    /\ UNCHANGED <<gilt, hist>>
    /\ UNCHANGED <<lvars, bvars, ivars>>

CallCashFlows ==
    /\ op = "idle"
    /\ \E s \in Settlements(gilt) :
        /\ op' = "cash_flows"
        /\ args' = <<s>>
        /\ ret' = cash_flows_call(gilt, s)
    /\ UNCHANGED <<gilt, hist>>
    /\ UNCHANGED <<lvars, bvars, ivars>>

\* clean_price(dirty_price(p, s), s): the price just returned is converted back
CallCleanPriceOfDirty ==
    /\ op = "dirty_price" /\ hist = <<>> /\ ret.status = "ok"
    /\ op' = "clean_price"
    /\ args' = <<ret.value, args[2]>>
    /\ ret' = clean_price_call(gilt, ret.value, args[2])
    /\ hist' = <<ThisCall>>
    /\ UNCHANGED gilt
    /\ UNCHANGED <<lvars, bvars, ivars>>

\* dirty_price(clean_price(q, s), s)
CallDirtyPriceOfClean ==
    /\ op = "clean_price" /\ hist = <<>> /\ ret.status = "ok"
    /\ op' = "dirty_price"
    /\ args' = <<ret.value, args[2]>>
    /\ ret' = dirty_price_call(gilt, ret.value, args[2])
    /\ hist' = <<ThisCall>>
    /\ UNCHANGED gilt
    /\ UNCHANGED <<lvars, bvars, ivars>>

\* accrued_interest(s) asked for the settlement date of the dirty price just returned
CallAccruedInterestOfDirty ==
    /\ op = "dirty_price" /\ hist = <<>> /\ ret.status = "ok"
    /\ op' = "accrued_interest"
    /\ args' = <<args[2]>>
    /\ ret' = accrued_interest_call(gilt, args[2])
    /\ hist' = <<ThisCall>>
    /\ UNCHANGED gilt
    /\ UNCHANGED <<lvars, bvars, ivars>>

CallYtm ==
    /\ op = "idle"
    /\ \E s \in Settlements(gilt), p \in Prices :
        /\ op' = "ytm"
        /\ args' = <<p, s>>
        /\ ret' \in ytm_outcomes(gilt, s)
    /\ UNCHANGED <<gilt, hist>>
    /\ UNCHANGED <<lvars, bvars, ivars>>

CallValue ==
    /\ op = "idle"
    /\ \E s \in Settlements(gilt), rate \in DiscountRates :
        /\ op' = "value"
        /\ args' = <<rate, s>>
        /\ ret' = value_call(gilt, s)
    /\ UNCHANGED <<gilt, hist>>
    /\ UNCHANGED <<lvars, bvars, ivars>>

\* the dates the calendar functions are asked about
CalendarDates(g) == Settlements(g) \cup (Date(2004, 8, 23)..Date(2004, 9, 8))

CallPrevBusinessDay ==
    /\ op = "idle"
    /\ \E d \in CalendarDates(gilt) :
        /\ op' = "prev_business_day"
        /\ args' = <<d>>
        /\ ret' = Returned(prev_business_day(d))
    /\ UNCHANGED <<gilt, hist>>
    /\ UNCHANGED <<lvars, bvars, ivars>>

CallNextBusinessDay ==
    /\ op = "idle"
    /\ \E d \in CalendarDates(gilt) :
        /\ op' = "next_business_day"
        /\ args' = <<d>>
        /\ ret' = Returned(next_business_day(d))
    /\ UNCHANGED <<gilt, hist>>
    /\ UNCHANGED <<lvars, bvars, ivars>>

\* next_business_day(prev_business_day(d))
CallNextOfPrev ==
    /\ op = "prev_business_day" /\ hist = <<>>
    /\ op' = "next_business_day"
    /\ args' = <<ret.value>>
    /\ ret' = Returned(next_business_day(ret.value))
    /\ hist' = <<ThisCall>>
    /\ UNCHANGED gilt
    /\ UNCHANGED <<lvars, bvars, ivars>>

\* prev_business_day(next_business_day(d))
CallPrevOfNext ==
    /\ op = "next_business_day" /\ hist = <<>>
    /\ op' = "prev_business_day"
    /\ args' = <<ret.value>>
    /\ ret' = Returned(prev_business_day(ret.value))
    /\ hist' = <<ThisCall>>
    /\ UNCHANGED gilt
    /\ UNCHANGED <<lvars, bvars, ivars>>

CallExDividendDate ==
    /\ op = "idle"
    /\ \E c \in CalendarDates(gilt) :
        /\ op' = "ex_dividend_date"
        /\ args' = <<c>>
        /\ ret' = Returned(ex_dividend_date(c))
    /\ UNCHANGED <<gilt, hist>>
    /\ UNCHANGED <<lvars, bvars, ivars>>

Return ==
    /\ op # "idle"
    /\ op' = "idle"
    /\ args' = <<>>
    /\ ret' = <<>>
    /\ hist' = <<>>
    /\ UNCHANGED gilt
    /\ UNCHANGED <<lvars, bvars, ivars>>

GNext ==
    \/ CallCouponDates
    \/ CallAccruedInterest
    \/ CallDirtyPrice
    \/ CallCleanPrice
    \/ CallCashFlows
    \/ CallCleanPriceOfDirty
    \/ CallDirtyPriceOfClean
    \/ CallAccruedInterestOfDirty
    \/ CallYtm
    \/ CallValue
    \/ CallPrevBusinessDay
    \/ CallNextBusinessDay
    \/ CallNextOfPrev
    \/ CallPrevOfNext
    \/ CallExDividendDate
    \/ Return

Spec == GInit /\ [][GNext]_vars

-----------------------------------------------------------------------------
(* class BondLadder: building the events of solve.                         *)

CASH_FLOW == 1
CONSUMPTION == 2
TAX_YEAR_END == 3
TAX_PAYMENT == 4

\* Python's None and math.nan: a pair that is no rational, its denominator being 0
None == <<0, 0>>
NaN == None

Event(date, description, tidm, kind, operand) ==
    [date |-> date, description |-> description, tidm |-> tidm, kind |-> kind,
     operand |-> operand]

last_consuption(l) == l.schedule[Len(l.schedule)][1]

\* the withdrawals of a nominal ladder (index_linked is False)
ConsumptionEvents(l) ==
    [i \in 1..Len(l.schedule) |->
        Event(l.schedule[i][1], "Withdrawal", "", CONSUMPTION, <<l.schedule[i][2], None>>)]

\* the year of d after `while d < today: d = d.replace(year=d.year + 1)`
RECURSIVE FirstTaxYear(_, _)
FirstTaxYear(y, today) == IF Date(y, 4, 5) < today THEN FirstTaxYear(y + 1, today) ELSE y

\* TaxLoopDone leaving the loop only once the tax year end is past the last consumption
TaxLoopDoneWhenPast(d, last) == d > last

\* `if d >= last_consuption: break`
TaxLoopDone(d, last) == d >= last

\* the `while True` loop over tax years, for the tax year ending in y
RECURSIVE TaxLoop(_, _)
TaxLoop(y, last) ==
    << Event(Date(y, 4, 5), "Tax year end", "", TAX_YEAR_END, <<None, None>>),
       Event(Date(y + 1, 1, 31), "Tax for year", "", TAX_PAYMENT, <<None, None>>) >>
    \o (IF TaxLoopDone(Date(y, 4, 5), last) THEN <<>> ELSE TaxLoop(y + 1, last))

TaxEvents(l) ==
    IF l.marginal_income_tax # RZero
    THEN TaxLoop(FirstTaxYear(Civil[l.today].year, l.today), last_consuption(l))
    ELSE <<>>

\* Issued.filter(False, settlement_date) over conventional gilts
RECURSIVE Issued_filter(_, _)
Issued_filter(all, settlement_date) ==
    IF all = <<>> THEN <<>>
    ELSE IF settlement_date > ex_dividend_date(Head(all).maturity)
              \/ Head(all).type_ # "Conventional"
         THEN Issued_filter(Tail(all), settlement_date)
         ELSE <<Head(all)>> \o Issued_filter(Tail(all), settlement_date)

\* whether the loop `for g in issued.filter(...)` keeps g as a holding
\* self.tidms[isin] and self.prices[tidm] raise KeyError for a key they do not hold
lookup_tidm_raises(prices, isin) == isin \notin DOMAIN prices.tidms

get_price_raises(prices, tidm) == tidm \notin DOMAIN prices.prices

IsHolding(l, g) == ~(g.maturity > shift_year(last_consuption(l), l.lag))

\* lp.LpVariable(name, 0) without its lower bound
LpVariable_free(value, lowBound) == TRUE

\* whether a value is one that lp.LpVariable(name, lowBound) can take
LpVariable(value, lowBound) == RLe(lowBound, value)

\* CouponDue emitting the coupons after the last consumption too
CouponDueAlways(d, last) == TRUE

\* `if d <= last_consuption`
CouponDue(d, last) == d <= last

\* Sold without `prob += quantity >= 0`
Sold_unconstrained(g, cd, sell, value, s) ==
    [s EXCEPT
        !.quantity = RSub(s.quantity, sell),
        !.feasible = s.feasible /\ LpVariable(sell, RZero),
        !.events = Append(s.events,
                      Event(cd, "Sell", g.tidm, CASH_FLOW,
                            <<RMul(sell, value),
                              RAdd(s.income, RMul(sell, Gilt_accrued_interest(g, cd)))>>)),
        !.income = RZero,
        !.consumption_dates = Tail(s.consumption_dates)]

\* the body of `if maturity < shift_year(cd, self.lag) and cd <= g.ex_dividend_date(maturity)`
\* for a sale of `sell` units at dirty price value on the consumption date cd
Sold(g, cd, sell, value, s) ==
    [s EXCEPT
        !.quantity = RSub(s.quantity, sell),
        !.feasible = s.feasible /\ LpVariable(sell, RZero)
                        /\ RSign(RSub(s.quantity, sell)) >= 0,
        !.events = Append(s.events,
                      Event(cd, "Sell", g.tidm, CASH_FLOW,
                            <<RMul(sell, value),
                              RAdd(s.income, RMul(sell, Gilt_accrued_interest(g, cd)))>>)),
        !.income = RZero,
        !.consumption_dates = Tail(s.consumption_dates)]

\* `if maturity < shift_year(cd, self.lag) and cd <= g.ex_dividend_date(maturity)`
Sells(l, g, cd) ==
    g.maturity < shift_year(cd, l.lag) /\ cd <= ex_dividend_date(g.maturity)

\* `while consumption_dates and consumption_dates[0] <= d`
RECURSIVE SellLoop(_, _, _, _, _)
SellLoop(l, sol, g, d, s) ==
    IF s.consumption_dates # <<>> /\ Head(s.consumption_dates) <= d
    THEN IF Sells(l, g, Head(s.consumption_dates))
         THEN SellLoop(l, sol, g, d,
                       Sold(g, Head(s.consumption_dates),
                            sol.sell[g.tidm][Head(s.consumption_dates)], sol.value, s))
         ELSE SellLoop(l, sol, g, d, [s EXCEPT !.consumption_dates = Tail(@)])
    ELSE s

\* the coupon of `amount` per unit on d
CouponEvent(l, g, d, amount, s) ==
    IF CouponDue(d, last_consuption(l))
    THEN [s EXCEPT
            !.events = Append(s.events,
                          Event(d, "Coupon", g.tidm, CASH_FLOW,
                                <<RMul(s.quantity, amount),
                                  RAdd(s.income, RMul(s.quantity, amount))>>)),
            !.income = RZero]
    ELSE s

\* `for d, amount in cash_flows[:-1]`, from the i-th entry on
RECURSIVE CouponLoopOf(_, _, _, _, _, _)
CouponLoopOf(l, sol, g, cash_flows_, i, s) ==
    IF i > Len(cash_flows_) - 1 THEN s
    ELSE CouponLoopOf(l, sol, g, cash_flows_, i + 1,
            CouponEvent(l, g, cash_flows_[i][1], cash_flows_[i][2],
                   IF l.lag # 0 THEN SellLoop(l, sol, g, cash_flows_[i][1], s) ELSE s))

\* the redemption at `amount` per unit
RedemptionEvent(l, g, amount, s) ==
    IF g.maturity <= last_consuption(l)
    THEN [s EXCEPT
            !.raised = s.raised \/ s.income # RZero,
            !.events = Append(s.events,
                          Event(g.maturity, "Redemption", g.tidm, CASH_FLOW,
                                <<RMul(s.quantity, amount), None>>)),
            !.quantity = RZero]
    ELSE s

\* one pass of `for g in self.issued.filter(...)`
Holding(l, sol, g, settlement_date, s) ==
    IF ~(g.maturity > settlement_date) THEN [s EXCEPT !.raised = TRUE]
    ELSE IF ~IsHolding(l, g) THEN s
    ELSE IF lookup_tidm_raises(l.prices, g.isin)
              \/ get_price_raises(l.prices, l.prices.tidms[g.isin])
    THEN [s EXCEPT !.raised = TRUE, !.error = "KeyError"]
    ELSE IF prev_next_coupon_date_raises(g, settlement_date)
              \/ Gilt_cash_flows(g, settlement_date) = <<>>
    THEN [s EXCEPT !.raised = TRUE]
    ELSE LET Last(cash_flows_, t) ==
                 RedemptionEvent(l, g, cash_flows_[Len(cash_flows_)][2], t)
             Of(cash_flows_, t) == Last(cash_flows_, CouponLoopOf(l, sol, g, cash_flows_, 1, t))
         IN  Of(Gilt_cash_flows(g, settlement_date),
                [s EXCEPT
                    !.quantity = sol.quantity[g.tidm],
                    !.feasible = s.feasible /\ LpVariable(sol.quantity[g.tidm], RZero),
                    !.income = RMul(sol.quantity[g.tidm],
                                    RNeg(Gilt_accrued_interest(g, settlement_date))),
                    !.consumption_dates = [i \in 1..Len(l.schedule) |-> l.schedule[i][1]]])

RECURSIVE HoldingsLoop(_, _, _, _, _)
HoldingsLoop(l, sol, gs, settlement_date, s) ==
    IF gs = <<>> \/ s.raised THEN s
    ELSE HoldingsLoop(l, sol, Tail(gs), settlement_date,
                      Holding(l, sol, Head(gs), settlement_date, s))

\* solve up to the sort: the events in the order of their insertion, whether an
\* assertion failed on the way, and whether the solution meets the constraints so far
BuildEvents(l, sol) ==
    HoldingsLoop(l, sol, Issued_filter(l.issued, next_business_day(l.today)),
                 next_business_day(l.today),
                 [events |-> ConsumptionEvents(l) \o TaxEvents(l),
                  raised |-> FALSE,
                  feasible |-> LpVariable(sol.initial_cash, RZero),
                  quantity |-> RZero,
                  income |-> RZero,
                  consumption_dates |-> <<>>,
                  error |-> "AssertionError"])

\* sort_key without the kind
sort_key_date(ev) == <<ev.date, 0>>

\* operator.attrgetter("date", "kind")
sort_key(ev) == <<ev.date, ev.kind>>

\* tuple comparison a <= b
TupleLe(a, b) == a[1] < b[1] \/ (a[1] = b[1] /\ a[2] <= b[2])

\* ev put into a sorted list behind every element whose key is not greater
RECURSIVE Insert(_, _)
Insert(sorted, ev) ==
    IF sorted = <<>> THEN <<ev>>
    ELSE IF TupleLe(sort_key(sorted[Len(sorted)]), sort_key(ev))
         THEN Append(sorted, ev)
         ELSE Append(Insert(SubSeq(sorted, 1, Len(sorted) - 1), ev), sorted[Len(sorted)])

\* list.sort(key=...): a stable sort
RECURSIVE list_sort(_, _)
list_sort(sorted, rest) ==
    IF rest = <<>> THEN sorted ELSE list_sort(Insert(sorted, Head(rest)), Tail(rest))

-----------------------------------------------------------------------------
(* BondLadder.solve: the loop over the sorted events.                      *)

CashFlow(date, description, tidm, incoming, outgoing, balance_, income) ==
    [date |-> date, description |-> description, tidm |-> tidm, incoming |-> incoming,
     outgoing |-> outgoing, balance |-> balance_, income |-> income]

\* the locals of solve that the loop updates
Locals ==
    [balance |-> balance, accrued_income |-> accrued_income, tax_due |-> tax_due,
     prev_date |-> prev_date, cash_flows |-> ladder_cash_flows, status |-> status]

SetLocals(s) ==
    /\ balance' = s.balance
    /\ accrued_income' = s.accrued_income
    /\ tax_due' = s.tax_due
    /\ prev_date' = s.prev_date
    /\ ladder_cash_flows' = s.cash_flows
    /\ status' = s.status

\* the interest of rate pro_rata_interest_rate on the balance, credited on ev.date
Interest(ev, pro_rata_interest_rate, s) ==
    [s EXCEPT
        !.balance = RMul(s.balance, RAdd(ROne, pro_rata_interest_rate)),
        !.accrued_income = RAdd(s.accrued_income, RMul(s.balance, pro_rata_interest_rate)),
        !.cash_flows = Append(s.cash_flows,
                          CashFlow(ev.date, "Interest", "",
                                   RMul(s.balance, pro_rata_interest_rate), NaN,
                                   RMul(s.balance, RAdd(ROne, pro_rata_interest_rate)),
                                   RMul(s.balance, pro_rata_interest_rate))),
        !.prev_date = ev.date]

\* `if ev.date != prev_date`: accumulate interest on cash balance
AccumulateInterest(l, ev, s) ==
    IF ev.date # s.prev_date
    THEN IF ~(ev.date >= s.prev_date) THEN [s EXCEPT !.status = "raised"]
         ELSE IF l.interest_rate # RZero /\ ev.date <= last_consuption(l)
         THEN Interest(ev, RMul(l.interest_rate, RNorm((ev.date - s.prev_date) * 4, 1461)), s)
         ELSE [s EXCEPT !.prev_date = ev.date]
    ELSE s

\* `if outgoing is not None`: the balance becomes a fresh variable v that equals
\* balance - outgoing; a value that v cannot take leaves the solution infeasible
Outgoing(ev, outgoing, s) ==
    IF LpVariable(RSub(s.balance, outgoing), RZero)
    THEN [s EXCEPT
            !.balance = RSub(s.balance, outgoing),
            !.cash_flows = Append(s.cash_flows,
                              CashFlow(ev.date, ev.description, ev.tidm, NaN, outgoing,
                                       RSub(s.balance, outgoing), NaN))]
    ELSE [s EXCEPT !.status = "infeasible"]

consumption(ev, s) ==
    IF s.status = "raised" THEN s ELSE Outgoing(ev, ev.operand[1], s)

cash_flow(ev, s) ==
    IF s.status = "raised" THEN s
    ELSE [s EXCEPT
            !.accrued_income = IF ev.operand[2] # None THEN RAdd(@, ev.operand[2]) ELSE @,
            !.balance = RAdd(@, ev.operand[1]),
            !.cash_flows = Append(@, CashFlow(ev.date, ev.description, ev.tidm, ev.operand[1],
                                              NaN, RAdd(s.balance, ev.operand[1]),
                                              ev.operand[2]))]

\* tax_year_end leaving the accrued income as it is
tax_year_end_keeping_income(l, s) ==
    IF s.status = "raised" THEN s
    ELSE IF s.tax_due # None THEN [s EXCEPT !.status = "raised"]
    ELSE [s EXCEPT !.tax_due = RMul(s.accrued_income, l.marginal_income_tax)]

tax_year_end(l, s) ==
    IF s.status = "raised" THEN s
    ELSE IF s.tax_due # None THEN [s EXCEPT !.status = "raised"]
    ELSE [s EXCEPT !.tax_due = RMul(s.accrued_income, l.marginal_income_tax),
                   !.accrued_income = RZero]

tax_payment(ev, s) ==
    IF s.status = "raised" THEN s
    ELSE IF s.tax_due = None THEN [s EXCEPT !.status = "raised"]
    ELSE Outgoing(ev, s.tax_due, [s EXCEPT !.tax_due = None])

-----------------------------------------------------------------------------
(* The ladders and solutions of the ladder specification.                  *)

MaxScheduleLen == 2
NumTodays == 2
MaxInterestCredits == 1

LadderGilt(tidm, isin, maturity) ==
    [type_ |-> "Conventional", tidm |-> tidm, isin |-> isin, coupon |-> RInt(4), maturity |-> maturity,
     issue_date |-> Date(2004, 6, 1), lag |-> 0, base_rpi |-> RZero]

GA == LadderGilt("GA", "GB0000000001", Date(2006, 3, 7))
GB == LadderGilt("GB", "GB0000000002", Date(2007, 3, 7))
GC == LadderGilt("GC", "GB0000000003", Date(2005, 4, 14))
GD == LadderGilt("GD", "GB0000000004", Date(2005, 9, 7))

Tidms == {"GA", "GB", "GC", "GD"}

\* universes as Issued holds them, sorted by maturity
Universes == { <<>>, <<GA>>, <<GD>>, <<GC, GA, GB>> }

Todays == { Date(2005, 4, 5) + k : k \in 0..(NumTodays - 1) }

ConsumptionDates ==
    { Date(2005, 9, 6), Date(2005, 9, 7), Date(2006, 3, 7), Date(2006, 4, 5),
      Date(2006, 4, 6) }

\* schedules as schedule() makes them: dates ascending and after today
Schedules ==
    UNION { { sch \in [1..n -> ConsumptionDates \X {RInt(100)}] :
                \A i \in 1..(n - 1) : sch[i][1] < sch[i + 1][1] } : n \in 1..MaxScheduleLen }

TaxRates == { RZero, <<1, 5>> }
InterestRates == { RZero, <<1461, 10000>> }
Lags == { 0, 1 }

Range(seq) == { seq[i] : i \in 1..Len(seq) }

\* the price book that maps every gilt of a universe to its TIDM and prices it
FullBook(universe) ==
    [tidms  |-> [x \in { g.isin : g \in Range(universe) } |->
                    (CHOOSE g \in Range(universe) : g.isin = x).tidm],
     prices |-> [x \in { g.tidm : g \in Range(universe) } |-> 95]]

WithoutTidm(b, isin) == [b EXCEPT !.tidms = [x \in DOMAIN b.tidms \ {isin} |-> b.tidms[x]]]

WithoutPrice(b, tidm) == [b EXCEPT !.prices = [x \in DOMAIN b.prices \ {tidm} |-> b.prices[x]]]

\* the price books a ladder is built with: the full one and, for a universe that
\* holds GA, one that lacks its TIDM and, for GA alone, one that lacks its price
LadderBooks(universe) ==
    { FullBook(universe) }
    \cup (IF GA \in Range(universe)
          THEN { WithoutTidm(FullBook(universe), GA.isin) } ELSE {})
    \cup (IF universe = <<GA>>
          THEN { WithoutPrice(FullBook(universe), GA.tidm) } ELSE {})

CashValues == { RInt(-100), RZero, RInt(200) }
QuantityValues == { RInt(-46), RZero, RInt(46) }
SellValues == { RInt(-46), RZero, RInt(23), RInt(46) }

\* what Gilt.value(rate=0.10, settlement_date=cd) may come to
SalePrices == { RInt(90) }

\* the gilts of the ladder that get a quantity variable
Held(l) ==
    { g.tidm : g \in { h \in Range(Issued_filter(l.issued, next_business_day(l.today))) :
                         IsHolding(l, h) } }

\* the sell variables that solve makes: one for a holding and a consumption date
\* on which it may be sold, and none without a lag
SellVariables(l) ==
    { p \in Tidms \X { l.schedule[i][1] : i \in 1..Len(l.schedule) } :
        /\ l.lag # 0
        /\ \E g \in Range(Issued_filter(l.issued, next_business_day(l.today))) :
              g.tidm = p[1] /\ IsHolding(l, g) /\ Sells(l, g, p[2]) }

\* candidate values of the variables initial_cash, quantity of each holding and sell
\* of each holding and date of sale; a gilt that is no holding has no variables
SolutionsOf(held, sells) ==
    [initial_cash : CashValues,
     quantity : { q \in [Tidms -> QuantityValues] : \A t \in Tidms \ held : q[t] = RZero },
     sell : { [t \in Tidms |-> [cd \in ConsumptionDates |->
                 IF <<t, cd>> \in sells THEN a[<<t, cd>>] ELSE RZero]] :
              a \in [sells -> SellValues] },
     value : SalePrices]

Solutions(l) == SolutionsOf(Held(l), SellVariables(l))

NoPurchase ==
    [initial_cash |-> RZero, quantity |-> [t \in Tidms |-> RZero],
     sell |-> [t \in Tidms |-> [cd \in ConsumptionDates |-> RZero]], value |-> RInt(90)]

\* the dates after today on which the loop credits interest when there is a rate
InterestDates(l) ==
    { ev.date : ev \in { e \in Range(BuildEvents(l, NoPurchase).events) :
                           l.today < e.date /\ e.date <= last_consuption(l) } }

\* exact compound interest outgrows the integers: ladders that bear interest
\* are those that credit it on few dates
Ladders ==
    { l \in UNION { [today : Todays, schedule : Schedules, marginal_income_tax : TaxRates,
                     interest_rate : InterestRates, lag : Lags, issued : {u},
                     prices : LadderBooks(u)] : u \in Universes } :
        l.interest_rate # RZero => Cardinality(InterestDates(l)) <= MaxInterestCredits }

LInit ==
    /\ ladder \in Ladders
    /\ solution = <<>>
    /\ status = "constructed"
    /\ events = <<>>
    /\ pc = 0
    /\ balance = RZero
    /\ accrued_income = RZero
    /\ tax_due = None
    /\ prev_date = 0
    /\ ladder_cash_flows = <<>>
    /\ gilt = GA
    /\ op = "idle"
    /\ args = <<>>
    /\ ret = <<>>
    /\ hist = <<>>
    /\ buy_df = None
    /\ cash_flow_df = None
    /\ attributes = {}
    /\ lp_status = LpStatusNotSolved
    /\ NoBook
    /\ NoIssued

\* solve from its start to the first event of the loop
Started(l, sol, built) ==
    /\ solution' = sol
    /\ events' = list_sort(<<>>, built.events)
    /\ pc' = 1
    /\ status' = IF built.raised
                 THEN IF built.error = "KeyError" THEN "KeyError" ELSE "raised"
                 ELSE IF ~built.feasible THEN "infeasible" ELSE "running"
    /\ balance' = sol.initial_cash
    /\ accrued_income' = RZero
    /\ tax_due' = None
    /\ prev_date' = l.today
    /\ ladder_cash_flows' =
          << CashFlow(l.today, "Deposit", "", sol.initial_cash, NaN, sol.initial_cash, NaN) >>

Solve ==
    /\ status = "constructed"
    /\ \E sol \in Solutions(ladder) : Started(ladder, sol, BuildEvents(ladder, sol))
    /\ UNCHANGED <<ladder, gvars, rvars, bvars, ivars>>

AtEvent(kind) == status = "running" /\ pc <= Len(events) /\ events[pc].kind = kind

Consumption ==
    /\ AtEvent(CONSUMPTION)
    /\ SetLocals(consumption(events[pc], AccumulateInterest(ladder, events[pc], Locals)))
    /\ pc' = pc + 1
    /\ UNCHANGED <<ladder, solution, events, gvars, rvars, bvars, ivars>>

CashFlowEvent ==
    /\ AtEvent(CASH_FLOW)
    /\ SetLocals(cash_flow(events[pc], AccumulateInterest(ladder, events[pc], Locals)))
    /\ pc' = pc + 1
    /\ UNCHANGED <<ladder, solution, events, gvars, rvars, bvars, ivars>>

TaxYearEnd ==
    /\ AtEvent(TAX_YEAR_END)
    /\ SetLocals(tax_year_end(ladder, AccumulateInterest(ladder, events[pc], Locals)))
    /\ pc' = pc + 1
    /\ UNCHANGED <<ladder, solution, events, gvars, rvars, bvars, ivars>>

TaxPayment ==
    /\ AtEvent(TAX_PAYMENT)
    /\ SetLocals(tax_payment(events[pc], AccumulateInterest(ladder, events[pc], Locals)))
    /\ pc' = pc + 1
    /\ UNCHANGED <<ladder, solution, events, gvars, rvars, bvars, ivars>>

\* the assertions on tax_due and accrued_income behind the solver's call
\* how solve ends behind prob.solve(solver): the assertion on the status of the
\* solver, then those on the taxes
solve_outcome(st, taxes_settled) ==
    IF st # LpStatusOptimal THEN "not_optimal"
    ELSE IF taxes_settled THEN "solved" ELSE "raised"

\* pd.DataFrame(...)
DataFrame == <<"DataFrame">>

\* results_after without the assertion on the status of the solver
results_after_any_status(outcome, old) ==
    IF outcome \in { "solved", "not_optimal" }
    THEN [buy_df |-> DataFrame, cash_flow_df |-> DataFrame,
          attributes |-> { "cost", "withdrawal_rate", "yield_" }]
    ELSE old

\* self.buy_df, self.cash_flow_df and which of self.cost, self.withdrawal_rate and
\* self.yield_ exist when solve ends, old being what they were
results_after(outcome, old) ==
    IF outcome = "solved"
    THEN [buy_df |-> DataFrame, cash_flow_df |-> DataFrame,
          attributes |-> { "cost", "withdrawal_rate", "yield_" }]
    ELSE old

SolvedWith(st, outcome, r) ==
    /\ lp_status' = st
    /\ status' = outcome
    /\ buy_df' = r.buy_df
    /\ cash_flow_df' = r.cash_flow_df
    /\ attributes' = r.attributes

Solved ==
    /\ status = "running" /\ pc > Len(events)
    /\ \E st \in LpStatuses :
         SolvedWith(st,
                    solve_outcome(st, tax_due = None
                                        /\ (ladder.marginal_income_tax = RZero
                                              \/ RLt(accrued_income, <<1, 100>>))),
                    results_after(solve_outcome(st, tax_due = None
                                        /\ (ladder.marginal_income_tax = RZero
                                              \/ RLt(accrued_income, <<1, 100>>))),
                                  [buy_df |-> buy_df, cash_flow_df |-> cash_flow_df,
                                   attributes |-> attributes]))
    /\ UNCHANGED <<ladder, solution, events, pc, balance, accrued_income, tax_due,
                   prev_date, ladder_cash_flows, gvars, bvars, ivars>>

\* solve has returned or raised on the status of the solver; its locals are gone
\* and the BondLadder can be solved again
SolveReturn ==
    /\ status \in { "solved", "not_optimal" }
    /\ status' = "constructed"
    /\ solution' = <<>>
    /\ events' = <<>>
    /\ pc' = 0
    /\ balance' = RZero
    /\ accrued_income' = RZero
    /\ tax_due' = None
    /\ prev_date' = 0
    /\ ladder_cash_flows' = <<>>
    /\ lp_status' = LpStatusNotSolved
    /\ UNCHANGED <<ladder, buy_df, cash_flow_df, attributes, gvars, bvars, ivars>>

LNext ==
    \/ Solve
    \/ Consumption
    \/ CashFlowEvent
    \/ TaxYearEnd
    \/ TaxPayment
    \/ Solved
    \/ SolveReturn

LadderSpec == LInit /\ [][LNext]_vars

-----------------------------------------------------------------------------
(* The price books: class GiltPrices of gilts.py and of lse.py.            *)

\* datetime.datetime(date.year, date.month, date.day, hour, minute), in minutes
DateTime(date, hour, minute) == (date * 24 + hour) * 60 + minute

\* datetime.datetime(year=datetime.MINYEAR, month=1, day=1)
MinDateTime == DateTime(1, 0, 0)

\* lse.GiltPrices gets its datetime attribute from the first entry: no attribute yet
NoAttribute == 0

Max(a, b) == IF a >= b THEN a ELSE b

\* d[k] = v on a dict
Put(d, k, v) == [x \in DOMAIN d \cup {k} |-> IF x = k THEN v ELSE d[x]]

\* the time of the closing auction on the day of a closing price
CloseTime(date) == DateTime(date, 16, 35)

\* GiltPrices.add_price (gilts.py) on the book b
add_price(b, dt, isin, tidm, price) ==
    [b EXCEPT !.datetime = Max(b.datetime, dt), !.tidms = Put(b.tidms, isin, tidm),
              !.prices = Put(b.prices, tidm, price)]

\* one pass of the loop of GiltPrices.from_last_close (gilts.py)
from_last_close_entry(b, entry) ==
    add_price(b, CloseTime(entry.date), entry.isin, entry.tidm, entry.price)

\* one pass of the loop of GiltPrices.__init__ (lse.py)
lse_entry(b, entry) ==
    [b EXCEPT !.datetime = CloseTime(entry.date),
              !.tidms = Put(b.tidms, entry.isin, entry.tidm),
              !.prices = Put(b.prices, entry.tidm, entry.price)]

\* from_latest_price taking the requested kind only
from_latest_price_no_fallback(data, kind) == data[kind]

\* the price from_latest takes for an instrument, None when it has none
from_latest_price(data, kind) ==
    IF data[kind] # None THEN data[kind] ELSE data.lastprice

\* whether an assertion of the loop of from_latest fails on an item
from_latest_raises(item) ==
    ~(item.data.tidm = item.tidm /\ item.data.isin = item.isin
        /\ item.data.currency = "GBP")

\* one pass of the loop of GiltPrices.from_latest, behind its assertions
from_latest_item(b, dt, kind, item) ==
    IF from_latest_price(item.data, kind) = None THEN b
    ELSE add_price(b, dt, item.isin, item.tidm, from_latest_price(item.data, kind))

-----------------------------------------------------------------------------
(* The feeds of the price-book specification.                              *)

MaxFeedLen == 2

Instruments == { [isin |-> "GB00B00NY175", tidm |-> "T4Q"],
                 [isin |-> "GB0009081828", tidm |-> "TR6H"] }

BookDates == { Date(2005, 4, 5), Date(2005, 4, 6), Date(2005, 4, 8) }

BookPrices == { RInt(95), RInt(101) }

\* the rows of the closing-price CSV: date, isin, tidm, price
CsvEntries ==
    { [date |-> d, isin |-> i.isin, tidm |-> i.tidm, price |-> p] :
        d \in BookDates, i \in Instruments, p \in BookPrices }

\* what lse.get_instrument_data answers for a listed instrument
InstrumentData ==
    { [tidm |-> i.tidm, isin |-> i.isin, currency |-> c, midPrice |-> m, lastprice |-> l] :
        i \in Instruments, c \in {"GBP"}, m \in {None, RInt(95)}, l \in {None, RInt(101)} }
    \cup { [tidm |-> "TR6H", isin |-> "GB0009081828", currency |-> "USD",
            midPrice |-> RInt(95), lastprice |-> RInt(101)] }

\* the instruments lse.get_latest_gilt_prices lists, each with its data
LatestItems == { [isin |-> d.isin, tidm |-> d.tidm, data |-> d] : d \in InstrumentData }

Kinds == { "midPrice", "lastprice" }

\* the time of the answer of the exchange
LatestTimes == { DateTime(Date(2005, 4, 6), 10, 5) }

\* what data.tidm.load answers: the bundled map from ISIN to TIDM
load_tidms == { <<>>, [x \in {"GB00B00NY175"} |-> "T4Q"] }

SeqsUpTo(S, n) == UNION { [1..k -> S] : k \in 0..n }

\* a call that fills a price book, and the book at its start
BookCalls ==
    { [call |-> "from_last_close", kind |-> "", dt |-> MinDateTime, state |-> "running",
       tidms0 |-> t] : t \in load_tidms }
    \cup { [call |-> "add_price", kind |-> "", dt |-> MinDateTime, state |-> "running",
            tidms0 |-> t] : t \in load_tidms }
    \cup { [call |-> "lse.GiltPrices", kind |-> "", dt |-> MinDateTime, state |-> "running",
            tidms0 |-> <<>>] }
    \cup { [call |-> "from_latest", kind |-> k, dt |-> d - 15, state |-> "running",
            tidms0 |-> t] : k \in Kinds, d \in LatestTimes, t \in load_tidms }

\* get_instrument_data answers the same for the same TIDM
FeedsOf(c) ==
    IF c.call = "from_latest"
    THEN { f \in SeqsUpTo(LatestItems, MaxFeedLen) :
             \A i, j \in 1..Len(f) : f[i].tidm = f[j].tidm => f[i] = f[j] }
    ELSE IF c.call = "add_price" THEN {<<>>}
    ELSE SeqsUpTo(CsvEntries, MaxFeedLen)

BInit ==
    /\ bstatus \in BookCalls
    /\ feed \in FeedsOf(bstatus)
    /\ book = [datetime |-> IF bstatus.call = "lse.GiltPrices" THEN NoAttribute
                            ELSE MinDateTime,
               tidms |-> bstatus.tidms0, prices |-> <<>>]
    /\ supplied = <<>>
    /\ gilt = <<>> /\ op = "idle" /\ args = <<>> /\ ret = <<>> /\ hist = <<>>
    /\ NoLadder
    /\ NoIssued

\* what the book was given: the time, the instrument and the price, None for none,
\* and the data of the exchange that the price comes from
Supplied(dt, isin, tidm, price, data) ==
    [dt |-> dt, isin |-> isin, tidm |-> tidm, price |-> price, data |-> data]

Running(call) == bstatus.call = call /\ bstatus.state = "running"

\* a call of add_price by the caller
AddPrice ==
    /\ Running("add_price")
    /\ Len(supplied) < MaxFeedLen
    /\ \E e \in CsvEntries, h \in {10, 16} :
        /\ book' = add_price(book, DateTime(e.date, h, 35), e.isin, e.tidm, e.price)
        /\ supplied' = Append(supplied, Supplied(DateTime(e.date, h, 35), e.isin, e.tidm,
                                                 e.price, <<>>))
    /\ UNCHANGED <<feed, bstatus, gvars, lvars, ivars>>

FromLastCloseEntry ==
    /\ Running("from_last_close")
    /\ feed # <<>>
    /\ book' = from_last_close_entry(book, Head(feed))
    /\ supplied' = Append(supplied, Supplied(CloseTime(Head(feed).date), Head(feed).isin,
                                             Head(feed).tidm, Head(feed).price, <<>>))
    /\ feed' = Tail(feed)
    /\ UNCHANGED <<bstatus, gvars, lvars, ivars>>

LseEntry ==
    /\ Running("lse.GiltPrices")
    /\ feed # <<>>
    /\ book' = lse_entry(book, Head(feed))
    /\ supplied' = Append(supplied, Supplied(CloseTime(Head(feed).date), Head(feed).isin,
                                             Head(feed).tidm, Head(feed).price, <<>>))
    /\ feed' = Tail(feed)
    /\ UNCHANGED <<bstatus, gvars, lvars, ivars>>

FromLatestItem ==
    /\ Running("from_latest")
    /\ feed # <<>>
    /\ IF from_latest_raises(Head(feed))
       THEN /\ bstatus' = [bstatus EXCEPT !.state = "raised"]
            /\ UNCHANGED <<book, supplied, feed>>
       ELSE /\ book' = from_latest_item(book, bstatus.dt, bstatus.kind, Head(feed))
            /\ supplied' = Append(supplied,
                                  Supplied(bstatus.dt, Head(feed).isin, Head(feed).tidm,
                                           from_latest_price(Head(feed).data, bstatus.kind),
                                           Head(feed).data))
            /\ feed' = Tail(feed)
            /\ UNCHANGED bstatus
    /\ UNCHANGED <<gvars, lvars, ivars>>

\* the book is handed to the caller
BookReturn ==
    /\ bstatus.state = "running"
    /\ feed = <<>>
    /\ bstatus.call = "add_price" => supplied # <<>>
    /\ bstatus' = [bstatus EXCEPT !.state = "returned"]
    /\ UNCHANGED <<book, feed, supplied, gvars, lvars, ivars>>

BNext ==
    \/ AddPrice
    \/ FromLastCloseEntry
    \/ LseEntry
    \/ FromLatestItem
    \/ BookReturn

BookSpec == BInit /\ [][BNext]_vars

-----------------------------------------------------------------------------
(* class Issued: the coupon of a name.  A name is the sequence of its      *)
(* characters; a vulgar fraction is written as its code point.             *)

Digits == <<"0", "1", "2", "3", "4", "5", "6", "7", "8", "9">>

IsDigit(c) == \E i \in 1..10 : Digits[i] = c

\* int(c) for a digit
DigitValue(c) == (CHOOSE i \in 1..10 : Digits[i] = c) - 1

\* float(units) for a string of digits
RECURSIVE float_digits(_)
float_digits(s) ==
    IF s = <<>> THEN 0 ELSE 10 * float_digits(SubSeq(s, 1, Len(s) - 1)) + DigitValue(s[Len(s)])

\* [½¼¾⅛⅜⅝⅞]
Glyphs == { "U+00BD", "U+00BC", "U+00BE", "U+215B", "U+215C", "U+215D", "U+215E" }

Letters == { "T", "r", "e", "a", "s", "u", "y" }

\* \w
IsWord(c) == IsDigit(c) \/ c \in Glyphs \/ c \in Letters \/ c = "_"

\* the character at p, "" outside the name
At(name, p) == IF 1 <= p /\ p <= Len(name) THEN name[p] ELSE ""

\* \b at p: between the characters p - 1 and p one is of a word and the other is not
WordBoundary(name, p) == IsWord(At(name, p - 1)) # IsWord(At(name, p))

\* the length of what an alternative other than the empty one of the group
\* `fraction` matches at p, 0 when none does
FractionLength(name, p) ==
    IF At(name, p) \in Glyphs THEN 1
    ELSE IF WordBoundary(name, p) /\ At(name, p + 1) = "/"
              /\ \/ At(name, p) = "1" /\ At(name, p + 2) = "2"
                 \/ At(name, p) \in {"1", "3"} /\ At(name, p + 2) = "4"
                 \/ At(name, p) \in {"1", "3", "5", "7"} /\ At(name, p + 2) = "8"
    THEN 3
    ELSE 0

\* `%? ` at q: an optional percent sign and a space
Closes(name, q) ==
    \/ At(name, q) = "%" /\ At(name, q + 1) = " "
    \/ At(name, q) = " "

NoMatch == [matched |-> FALSE, units |-> <<>>, fraction |-> <<>>]

\* the group `fraction` and the rest of the pattern tried at p, the empty
\* alternative first; units is what the group `units` holds, <<"None">> for nothing
MatchFraction(name, p, units) ==
    IF Closes(name, p)
    THEN [matched |-> TRUE, units |-> units, fraction |-> <<>>]
    ELSE IF FractionLength(name, p) > 0 /\ Closes(name, p + FractionLength(name, p))
    THEN [matched |-> TRUE, units |-> units,
          fraction |-> SubSeq(name, p, p + FractionLength(name, p) - 1)]
    ELSE NoMatch

\* `(?:(?P<units>[0-9]+) ?)` with n digits, n going down as the match backtracks,
\* and at last the pattern without that group
RECURSIVE MatchUnits(_, _)
MatchUnits(name, n) ==
    IF n = 0 THEN MatchFraction(name, 1, <<"None">>)
    ELSE IF ~(\A i \in 1..n : IsDigit(At(name, i))) THEN MatchUnits(name, n - 1)
    ELSE IF At(name, n + 1) = " "
              /\ MatchFraction(name, n + 2, SubSeq(name, 1, n)).matched
    THEN MatchFraction(name, n + 2, SubSeq(name, 1, n))
    ELSE IF MatchFraction(name, n + 1, SubSeq(name, 1, n)).matched
    THEN MatchFraction(name, n + 1, SubSeq(name, 1, n))
    ELSE MatchUnits(name, n - 1)

\* Issued._coupon_re.match(name)
coupon_re_match(name) == MatchUnits(name, Len(name))

\* Issued._fractions[fraction]
fractions(fraction) ==
    IF fraction = <<>> THEN RZero
    ELSE IF fraction = <<"U+215B">> THEN <<1, 8>>
    ELSE IF fraction = <<"U+00BC">> THEN <<1, 4>>
    ELSE IF fraction = <<"U+215C">> THEN <<3, 8>>
    ELSE IF fraction = <<"U+00BD">> THEN <<1, 2>>
    ELSE IF fraction = <<"U+215D">> THEN <<5, 8>>
    ELSE IF fraction = <<"U+00BE">> THEN <<3, 4>>
    ELSE IF fraction = <<"U+215E">> THEN <<7, 8>>
    ELSE IF fraction = <<"1", "/", "8">> THEN <<1, 8>>
    ELSE IF fraction = <<"1", "/", "2">> THEN <<1, 4>>
    ELSE IF fraction = <<"1", "/", "4">> THEN <<1, 4>>
    ELSE IF fraction = <<"3", "/", "8">> THEN <<3, 8>>
    ELSE IF fraction = <<"5", "/", "8">> THEN <<5, 8>>
    ELSE IF fraction = <<"3", "/", "4">> THEN <<3, 4>>
    ELSE <<7, 8>>

\* whether the assertion of _parse_coupon fails
parse_coupon_raises(name) == ~coupon_re_match(name).matched

\* Issued._parse_coupon(name), behind its assertion
parse_coupon(name) ==
    LET Of(mo) ==
            IF mo.units # <<"None">>
            THEN RAdd(fractions(mo.fraction), RInt(float_digits(mo.units)))
            ELSE fractions(mo.fraction)
    IN  Of(coupon_re_match(name))

-----------------------------------------------------------------------------
(* class Issued: construction from the instrument records, and filter.     *)

\* entry['INSTRUMENT_TYPE'].rstrip(' ')
rstrip(type_) ==
    IF type_ = "Conventional " THEN "Conventional"
    ELSE IF type_ = "Index-linked 3 months " THEN "Index-linked 3 months"
    ELSE IF type_ = "Index-linked 8 months " THEN "Index-linked 8 months"
    ELSE type_

\* re.match(r'^Index-linked (3|8) months$', type_): the lag, 0 for no match
type_lag(type_) ==
    IF type_ = "Index-linked 3 months" THEN 3
    ELSE IF type_ = "Index-linked 8 months" THEN 8
    ELSE 0

\* `assert lag == 3 if kwargs['issue_date'] >= datetime.date(2005, 9, 22) else 8`:
\* the conditional expression binds weaker than ==, and 8 is true
lag_assert(lag, issue_date) ==
    IF issue_date >= Date(2005, 9, 22) THEN lag = 3 ELSE TRUE

\* whether Issued.__init__ raises on an entry
entry_raises(entry) ==
    \/ parse_coupon_raises(entry.INSTRUMENT_NAME)
    \/ /\ rstrip(entry.INSTRUMENT_TYPE) # "Conventional"
       /\ \/ type_lag(rstrip(entry.INSTRUMENT_TYPE)) = 0
          \/ ~lag_assert(type_lag(rstrip(entry.INSTRUMENT_TYPE)), entry.FIRST_ISSUE_DATE)

\* the Gilt or IndexLinkedGilt that Issued.__init__ makes of an entry
gilt_of(entry) ==
    IF rstrip(entry.INSTRUMENT_TYPE) = "Conventional"
    THEN [type_ |-> "Conventional", name |-> entry.INSTRUMENT_NAME,
          isin |-> entry.ISIN_CODE, coupon |-> parse_coupon(entry.INSTRUMENT_NAME),
          maturity |-> entry.REDEMPTION_DATE, issue_date |-> entry.FIRST_ISSUE_DATE,
          lag |-> 0, base_rpi |-> RZero]
    ELSE [type_ |-> "Index-linked", name |-> entry.INSTRUMENT_NAME,
          isin |-> entry.ISIN_CODE, coupon |-> parse_coupon(entry.INSTRUMENT_NAME),
          maturity |-> entry.REDEMPTION_DATE, issue_date |-> entry.FIRST_ISSUE_DATE,
          lag |-> IndexLinkedGilt_lag(entry.FIRST_ISSUE_DATE),
          base_rpi |-> entry.BASE_RPI_87]

\* g put into a list sorted by maturity behind every gilt that matures no later
RECURSIVE InsertByMaturity(_, _)
InsertByMaturity(sorted, g) ==
    IF sorted = <<>> THEN <<g>>
    ELSE IF sorted[Len(sorted)].maturity <= g.maturity THEN Append(sorted, g)
    ELSE Append(InsertByMaturity(SubSeq(sorted, 1, Len(sorted) - 1), g), sorted[Len(sorted)])

\* the loop of Issued.__init__ and self.all.sort(key=operator.attrgetter('maturity'))
RECURSIVE Issued_all(_, _)
Issued_all(sorted, rest) ==
    IF rest = <<>> THEN sorted
    ELSE Issued_all(InsertByMaturity(sorted, gilt_of(Head(rest))), Tail(rest))

\* no date: settlement_date=None, close_date = None
NoDate == 0

\* self.close_date after the loop: that of the last entry
close_date_of(es) == IF es = <<>> THEN NoDate ELSE es[Len(es)].CLOSE_OF_BUSINESS_DATE

\* Issued(...) for the entries es
Issued_init(es, rpi_series) ==
    IF \E i \in 1..Len(es) : entry_raises(es[i])
    THEN [status |-> "raised", all |-> <<>>, close_date |-> NoDate, rpi_series |-> rpi_series]
    ELSE [status |-> "constructed", all |-> Issued_all(<<>>, es),
          close_date |-> close_date_of(es), rpi_series |-> rpi_series]

\* fixed_date taking every date for the first of its month
fixed_date_three_months(g, date) ==
    IF g.lag = 3
    THEN shift_month(Date(Civil[date].year, Civil[date].month, 1), -3)
    ELSE shift_month(Date(Civil[date].year, Civil[date].month, 1), -8)

\* IndexLinkedGilt.fixed_date(date)
fixed_date(g, date) ==
    IF g.lag = 3
    THEN IF Civil[date].day > 1
         THEN shift_month(Date(Civil[date].year, Civil[date].month, 1), -2)
         ELSE shift_month(Date(Civil[date].year, Civil[date].month, 1), -3)
    ELSE shift_month(Date(Civil[date].year, Civil[date].month, 1), -8)

\* IndexLinkedGilt.is_redemption_fixed()
is_redemption_fixed(g, rpi_series) == rpi_series.last_date >= fixed_date(g, g.maturity)

\* Issued.__types[index_linked]
types(index_linked) ==
    IF index_linked = "False" THEN {"Conventional"}
    ELSE IF index_linked = "True" THEN {"Index-linked"}
    ELSE {"Conventional", "Index-linked"}

\* the type filter selects a gilt by
selection_type(g, rpi_series) ==
    IF g.type_ = "Index-linked" /\ is_redemption_fixed(g, rpi_series)
    THEN "Conventional" ELSE g.type_

\* filter_keeps letting through the gilts past their final ex-dividend date
filter_keeps_expired(g, index_linked, settlement_date, rpi_series) ==
    selection_type(g, rpi_series) \in types(index_linked)

\* whether filter yields g
filter_keeps(g, index_linked, settlement_date, rpi_series) ==
    /\ ~(settlement_date # NoDate /\ settlement_date > ex_dividend_date(g.maturity))
    /\ selection_type(g, rpi_series) \in types(index_linked)

\* list(Issued.filter(index_linked, settlement_date))
RECURSIVE filter(_, _, _, _)
filter(all, index_linked, settlement_date, rpi_series) ==
    IF all = <<>> THEN <<>>
    ELSE IF filter_keeps(Head(all), index_linked, settlement_date, rpi_series)
    THEN <<Head(all)>> \o filter(Tail(all), index_linked, settlement_date, rpi_series)
    ELSE filter(Tail(all), index_linked, settlement_date, rpi_series)

-----------------------------------------------------------------------------
(* yield_curve(issued, prices, index_linked).  The yield that g.ytm finds   *)
(* is an input: ytms[i] is what it returns for the i-th gilt of the filter. *)

\* what stops the body of the loop for g: "KeyError" from the price book, "raised"
\* from dirty_price or ytm, "" when the row is appended
yield_curve_stops(g, prices, settlement_date) ==
    IF lookup_tidm_raises(prices, g.isin) THEN "KeyError"
    ELSE IF get_price_raises(prices, prices.tidms[g.isin]) THEN "KeyError"
    ELSE IF prev_next_coupon_date_raises(g, settlement_date) THEN "raised"
    ELSE IF ytm_outcomes(g, settlement_date) = { Raised } THEN "raised"
    ELSE ""

\* `if index_linked: ytm = (1.0 + ytm)/(1.0 + IndexLinkedGilt.inflation_rate) - 1.0`
\* and `ytm *= 100.0`
yield_of(g, ytm, index_linked) ==
    IF index_linked = "True"
    THEN RMul(RSub(RDiv(RAdd(ROne, ytm), RAdd(ROne, inflation_rate)), ROne), RInt(100))
    ELSE RMul(ytm, RInt(100))

yield_curve_row(g, prices, close_date, ytm, index_linked) ==
    [Maturity |-> RNorm((g.maturity - close_date) * 100, 36525),
     Yield    |-> yield_of(g, ytm, index_linked),
     TIDM     |-> prices.tidms[g.isin]]

\* yield_curve over the gilts gs that the filter yields
yield_curve_over(gs, prices, close_date, index_linked, ytms) ==
    LET settlement_date == next_business_day(close_date)
        Stopped == { i \in 1..Len(gs) : yield_curve_stops(gs[i], prices, settlement_date) # "" }
    IN  IF Stopped # {}
        THEN [status |-> yield_curve_stops(gs[CHOOSE i \in Stopped : \A j \in Stopped : i <= j],
                                           prices, settlement_date)]
        ELSE [status |-> "ok",
              value  |-> [i \in 1..Len(gs) |->
                             yield_curve_row(gs[i], prices, close_date, ytms[i], index_linked)]]

yield_curve(iss, prices, index_linked, ytms) ==
    yield_curve_over(filter(iss.all, index_linked, next_business_day(iss.close_date),
                            iss.rpi_series),
                     prices, iss.close_date, index_linked, ytms)

-----------------------------------------------------------------------------
(* The names, records and surroundings of the universe specifications.     *)

Fractions ==
    { <<>> } \cup { <<c>> : c \in Glyphs }
    \cup { <<"1", "/", "8">>, <<"1", "/", "4">>, <<"3", "/", "8">>, <<"1", "/", "2">>,
           <<"5", "/", "8">>, <<"3", "/", "4">>, <<"7", "/", "8">> }

UnitsParts == { <<>>, <<"4">>, <<"1", "2">> }

Separators == { <<>>, <<" ">> }

PercentSigns == { <<>>, <<"%">> }

Name(units, sep, fraction, pct) == units \o sep \o fraction \o pct \o <<" ", "T">>

\* the separators that follow a units part: none when there are no units
SeparatorsOf(units) == IF units = <<>> THEN { <<>> } ELSE Separators

\* names such as `4 1/2% T`, `4U+00BD% T`, `12 T`, `U+00BD% T`
Names ==
    UNION { { Name(units, sep, fraction, pct) :
                sep \in SeparatorsOf(units), fraction \in Fractions,
                pct \in PercentSigns } : units \in UnitsParts }

\* the most records of a file
MaxEntries == 2

IsinOf == <<"GB00B00NY175", "GB0009081828", "GB00B0V3WQ75">>

TidmOf == <<"T4Q", "TR6H", "T11">>

InstrumentTypes == { "Conventional ", "Index-linked 3 months", "Index-linked 8 months " }

FirstIssueDates == { Date(2005, 6, 9), Date(2005, 9, 22) }

RedemptionDates == { Date(2006, 9, 7), Date(2007, 3, 7) }

CloseDates == { Date(2006, 8, 25), Date(2006, 8, 29) }

\* the i-th record of a file closed on the date close
Entries(i, close) ==
    { [INSTRUMENT_NAME |-> IF m = Date(2006, 9, 7) THEN <<"4", " ", "3", "/", "4", "%", " ", "T">>
                           ELSE <<"2", "U+00BD", "%", " ", "T">>,
       ISIN_CODE |-> IsinOf[i], INSTRUMENT_TYPE |-> t, REDEMPTION_DATE |-> m,
       FIRST_ISSUE_DATE |-> d, BASE_RPI_87 |-> RInt(190),
       CLOSE_OF_BUSINESS_DATE |-> close] :
         t \in InstrumentTypes, d \in FirstIssueDates, m \in RedemptionDates }

EntryLists ==
    UNION { { es \in [1..n -> UNION { Entries(i, close) : i \in 1..n }] :
                \A i \in 1..n : es[i] \in Entries(i, close) } :
            n \in 1..MaxEntries, close \in CloseDates }

\* the month of the last published RPI
RpiLastDates == { Date(2006, 6, 1), Date(2006, 7, 1) }

\* price books for n gilts: complete, without the TIDM of the last, without its price
PriceBooks(n) ==
    { [tidms  |-> [x \in { IsinOf[i] : i \in 1..n } |-> TidmOf[CHOOSE i \in 1..n : IsinOf[i] = x]],
       prices |-> [x \in { TidmOf[i] : i \in 1..n } |-> 95]],
      [tidms  |-> [x \in { IsinOf[i] : i \in 1..(n - 1) } |-> TidmOf[CHOOSE i \in 1..n : IsinOf[i] = x]],
       prices |-> [x \in { TidmOf[i] : i \in 1..(n - 1) } |-> 95]],
      [tidms  |-> [x \in { IsinOf[i] : i \in 1..n } |-> TidmOf[CHOOSE i \in 1..n : IsinOf[i] = x]],
       prices |-> [x \in { TidmOf[i] : i \in 1..(n - 1) } |-> 95]] }

Worlds(n) ==
    { [rpi_series |-> [last_date |-> d], prices |-> b] :
        d \in RpiLastDates, b \in PriceBooks(n) }

\* the yields that ytm finds
Ytms == { <<3, 100>>, <<1, 20>> }

Selectors == { "False", "True", "None" }

FilterSettlements == { NoDate, Date(2006, 8, 29), Date(2006, 8, 30) }

Idle == [op |-> "idle", args |-> <<>>, ret |-> <<>>]

NoPricing == gilt = <<>> /\ op = "idle" /\ args = <<>> /\ ret = <<>> /\ hist = <<>>

IInit ==
    /\ entries \in EntryLists
    /\ world \in Worlds(Len(entries))
    /\ issued = [status |-> "none"]
    /\ icall = Idle
    /\ NoPricing
    /\ NoLadder
    /\ NoBook

\* Issued(filename=..., rpi_series=...): the records are those of the XML report,
\* taken as they are (_parse_csv writes the type of a record itself)
Construct ==
    /\ issued.status = "none"
    /\ issued' = Issued_init(entries, world.rpi_series)
    /\ UNCHANGED <<entries, world, icall>>
    /\ UNCHANGED <<gvars, lvars, bvars>>

\* list(issued.filter(index_linked, settlement_date))
Filter ==
    /\ issued.status = "constructed"
    /\ icall.op = "idle"
    /\ \E index_linked \in Selectors, settlement_date \in FilterSettlements :
        icall' = [op |-> "filter", args |-> <<index_linked, settlement_date>>,
                  ret |-> filter(issued.all, index_linked, settlement_date,
                                 issued.rpi_series)]
    /\ UNCHANGED <<entries, world, issued>>
    /\ UNCHANGED <<gvars, lvars, bvars>>

\* yield_curve(issued, prices, index_linked)
YieldCurve ==
    /\ issued.status = "constructed"
    /\ icall.op = "idle"
    /\ \E index_linked \in Selectors, ytms \in [1..Len(issued.all) -> Ytms] :
        icall' = [op |-> "yield_curve", args |-> <<index_linked, ytms>>,
                  ret |-> yield_curve(issued, world.prices, index_linked, ytms)]
    /\ UNCHANGED <<entries, world, issued>>
    /\ UNCHANGED <<gvars, lvars, bvars>>

IssuedReturn ==
    /\ icall.op # "idle"
    /\ icall' = Idle
    /\ UNCHANGED <<entries, world, issued>>
    /\ UNCHANGED <<gvars, lvars, bvars>>

INext ==
    \/ Construct
    \/ Filter
    \/ YieldCurve
    \/ IssuedReturn

IssuedSpec == IInit /\ [][INext]_vars

\* Issued._parse_coupon(name) for the names of Names
CInit ==
    /\ entries = <<>>
    /\ world = <<>>
    /\ issued = [status |-> "none"]
    /\ \E name \in Names : icall = [op |-> "idle", args |-> <<name>>, ret |-> <<>>]
    /\ NoPricing
    /\ NoLadder
    /\ NoBook

ParseCoupon ==
    /\ icall.op = "idle"
    /\ icall' = [op |-> "_parse_coupon", args |-> icall.args,
                 ret |-> IF parse_coupon_raises(icall.args[1]) THEN Raised
                         ELSE Returned(parse_coupon(icall.args[1]))]
    /\ UNCHANGED <<entries, world, issued>>
    /\ UNCHANGED <<gvars, lvars, bvars>>

CNext == ParseCoupon

CouponSpec == CInit /\ [][CNext]_vars

-----------------------------------------------------------------------------
(* The index-linked gilts about the time their redemption is fixed: the    *)
(* calls that tell when it is, and those that depend on the RPI series.    *)

FixingMaturities == { Date(2006, 9, 7), Date(2006, 9, 1) }

\* the first day of the month of index i
MonthStart(i) == Date(2004 + ((i - 1) \div 12), ((i - 1) % 12) + 1, 1)

\* the last months of the RPI series: from the month before the earliest month that
\* the reference RPI of the maturity reads to two months after it
LastDates(m, lag) ==
    { MonthStart(lookup_index(m) - lag + k) : k \in -1..2 }

FixingGilts ==
    UNION { { [type_ |-> "Index-linked", coupon |-> <<2, 1>>, maturity |-> m,
               issue_date |-> i, lag |-> IndexLinkedGilt_lag(i),
               base_rpi |-> RpiValues[lookup_index(i) - 3],
               rpi_series |-> [last_date |-> d]] :
                 d \in LastDates(m, IndexLinkedGilt_lag(i)) } :
            m \in FixingMaturities, i \in FirstIssueDates }

\* the rates of inflation assumed for the months not yet published
InflationRates == { RZero, inflation_rate, <<12, 100>> }

\* the settlement dates at which the cash flows are asked for
FixingSettlements(g) == { g.maturity - 30, ex_dividend_date(g.maturity) }

FInit ==
    /\ gilt \in FixingGilts
    /\ op = "idle"
    /\ args = <<>>
    /\ ret = <<>>
    /\ hist = <<>>
    /\ NoLadder
    /\ NoBook
    /\ NoIssued

\* redemption_fixed()
CallRedemptionFixed ==
    /\ op = "idle"
    /\ op' = "redemption_fixed"
    /\ args' = <<>>
    /\ ret' = Returned(fixed_date(gilt, gilt.maturity))
    /\ UNCHANGED <<gilt, hist>>
    /\ UNCHANGED <<lvars, bvars, ivars>>

\* is_redemption_fixed()
CallIsRedemptionFixed ==
    /\ op = "idle"
    /\ op' = "is_redemption_fixed"
    /\ args' = <<>>
    /\ ret' = Returned(is_redemption_fixed(gilt, gilt.rpi_series))
    /\ UNCHANGED <<gilt, hist>>
    /\ UNCHANGED <<lvars, bvars, ivars>>

\* index_ratio(maturity, inflation_rate), first or after another such call
CallIndexRatio ==
    /\ op \in { "idle", "index_ratio" }
    /\ \E rate \in InflationRates :
        /\ op' = "index_ratio"
        /\ args' = <<gilt.maturity, rate>>
        /\ ret' = Returned(index_ratio(gilt, gilt.maturity, rate))
    /\ hist' = <<ThisCall>>
    /\ UNCHANGED gilt
    /\ UNCHANGED <<lvars, bvars, ivars>>

\* cash_flows(settlement_date, inflation_rate), first or after another such call
CallIndexLinkedCashFlows ==
    /\ op \in { "idle", "cash_flows" }
    /\ \E s \in FixingSettlements(gilt), rate \in InflationRates :
        /\ op' = "cash_flows"
        /\ args' = <<rate, s>>
        /\ ret' = Returned(IndexLinkedGilt_cash_flows(gilt, s, rate))
    /\ hist' = <<ThisCall>>
    /\ UNCHANGED gilt
    /\ UNCHANGED <<lvars, bvars, ivars>>

FNext ==
    \/ CallRedemptionFixed
    \/ CallIsRedemptionFixed
    \/ CallIndexRatio
    \/ CallIndexLinkedCashFlows
    \/ Return

FixingSpec == FInit /\ [][FNext]_vars

-----------------------------------------------------------------------------
(* Properties of the pricing methods.                                      *)

InLife(g, s) == g.issue_date <= s /\ s <= g.maturity

\* the candidate dates: maturity shifted back by k times 6 months
Cand(g, k) == shift_month(g.maturity, -6 * k)
CandIdx == 0..4
Candidates(g) == { Cand(g, k) : k \in CandIdx }

\* the dates on which the gilt pays a coupon
CouponDatesOf(g) == { c \in Candidates(g) : c - g.issue_date >= min_coupon_days }

Ascending(seq) == \A i \in 1..(Len(seq) - 1) : seq[i] < seq[i + 1]

RECURSIVE SumAmounts(_)
SumAmounts(cf) == IF cf = <<>> THEN RZero ELSE RAdd(Head(cf)[2], SumAmounts(Tail(cf)))

\* a coupon dated c: an entry dated c other than the closing redemption entry
HasCoupon(cf, c) == \E i \in 1..(Len(cf) - 1) : cf[i][1] = c

\* C1 as stated: coupon_dates(settlement) returns the last candidate not after
\* settlement as prev_coupon_date and exactly the candidates strictly after
\* settlement, ascending and ending at maturity, as next_coupon_dates; a settlement
\* on a coupon date has that date as prev_coupon_date.
C1_AsStated ==
    (op = "coupon_dates" /\ InLife(gilt, args[1])) =>
        /\ ret.status = "ok"
        /\ LET s == args[1]
               v == ret.value
           IN  /\ v.prev \in Candidates(gilt)
               /\ v.prev <= s
               /\ \A c \in Candidates(gilt) : c <= s => c <= v.prev
               /\ Range(v.next) = { c \in Candidates(gilt) : c > s }
               /\ Ascending(v.next)
               /\ (v.next # <<>> => v.next[Len(v.next)] = gilt.maturity)

\* C1 (amended): for issue_date <= settlement <= maturity, next_coupon_dates holds
\* exactly the candidates that are on or after settlement and at least 60 days after
\* issue_date, ascending and ending at maturity, and prev_coupon_date is the candidate
\* six months before the first of them; it is strictly before settlement unless it is
\* less than 60 days after issue_date. A settlement on a coupon date has that date
\* first in next_coupon_dates, and prev_coupon_date strictly before it.
C1_CouponDates ==
    (op = "coupon_dates" /\ InLife(gilt, args[1])) =>
        /\ ret.status = "ok"
        /\ LET s == args[1]
               v == ret.value
               n == Len(v.next)
           IN  /\ \A i \in 1..n : v.next[i] = Cand(gilt, n - i)
               /\ v.prev = Cand(gilt, n)
               /\ \A k \in CandIdx :
                    (k < n) <=> (Cand(gilt, k) >= s
                                   /\ Cand(gilt, k) - gilt.issue_date >= min_coupon_days)
               /\ (v.prev < s \/ v.prev - gilt.issue_date < min_coupon_days)
               /\ (s \in CouponDatesOf(gilt) => v.next[1] = s /\ v.prev < s)

C1_Witness ==
    /\ op = "coupon_dates" /\ ret.status = "ok"
    /\ Len(ret.value.next) >= 2
    /\ args[1] = ret.value.next[1]
    /\ ret.value.prev < args[1]

\* the coupon date whose period holds the settlement date s, and the candidate before it
NextCouponOf(g, s) ==
    CHOOSE c \in CouponDatesOf(g) :
        c >= s /\ \A e \in CouponDatesOf(g) : e >= s => c <= e
PrevCandidateOf(g, c) ==
    CHOOSE q \in Candidates(g) : \E k \in CandIdx : c = Cand(g, k) /\ q = Cand(g, k + 1)

\* C2: for every coupon date c with xd = ex_dividend_date(c) >= issue_date,
\* cash_flows(xd) holds a coupon dated c and cash_flows(s) for xd < s <= c holds none;
\* accrued_interest(s) is non-negative up to xd and from xd + 1 on it is the rebate:
\* the fraction of the period elapsed since the previous coupon date minus one whole
\* period, times the dividend (indexed, for an index-linked gilt).
C2_ExDividendBoundary ==
    /\ (op = "cash_flows" /\ InLife(gilt, args[1])) =>
        /\ ret.status = "ok"
        /\ \A c \in CouponDatesOf(gilt) :
            LET xd == ex_dividend_date(c)
            IN  gilt.issue_date <= xd =>
                  /\ (args[1] = xd => HasCoupon(ret.value, c))
                  /\ (xd < args[1] /\ args[1] <= c => ~HasCoupon(ret.value, c))
    /\ (op = "accrued_interest" /\ InLife(gilt, args[1])) =>
        /\ ret.status = "ok"
        /\ LET s    == args[1]
               c    == NextCouponOf(gilt, s)
               prev == PrevCandidateOf(gilt, c)
               xd   == ex_dividend_date(c)
               ir   == IF gilt.type_ = "Index-linked"
                       THEN index_ratio(gilt, s, inflation_rate) ELSE ROne
               rebate == RMul(RMul(RSub(RNorm(s - prev, c - prev), ROne),
                                   RDiv(gilt.coupon, RInt(2))), ir)
           IN  /\ (s <= xd => RSign(ret.value) >= 0)
               /\ (s > xd => ret.value = rebate /\ RSign(ret.value) <= 0)

C2_Witness ==
    /\ op = "cash_flows" /\ ret.status = "ok"
    /\ \E c \in CouponDatesOf(gilt) :
        /\ args[1] = ex_dividend_date(c) + 1
        /\ args[1] < c
        /\ ~HasCoupon(ret.value, c)
        /\ ret.value # <<>>

\* C3: clean_price(dirty_price(p, s), s) = p and dirty_price(clean_price(q, s), s) = q
\* for every gilt of either class and lag and every s in [issue_date, maturity].
C3_RoundTrip ==
    (hist # <<>>
       /\ ((op = "clean_price" /\ hist[1].op = "dirty_price")
            \/ (op = "dirty_price" /\ hist[1].op = "clean_price"))
       /\ InLife(gilt, args[2])) =>
        /\ ret.status = "ok"
        /\ ret.value = hist[1].args[1]

C3_Witness ==
    /\ hist # <<>> /\ op = "clean_price" /\ hist[1].op = "dirty_price"
    /\ gilt.lag = 3
    /\ ret.status = "ok"
    /\ ret.value = hist[1].args[1]
    /\ hist[1].ret.value # hist[1].args[1]

\* C4 as stated: dirty_price(clean, s) - accrued_interest(s) = clean for every gilt,
\* index-linked gilts of either lag included.
C4_AsStated ==
    (hist # <<>> /\ op = "accrued_interest" /\ hist[1].op = "dirty_price"
       /\ InLife(gilt, args[1])) =>
        /\ ret.status = "ok"
        /\ RSub(hist[1].ret.value, ret.value) = hist[1].args[1]

\* C4 (amended): dirty_price(clean, s) - accrued_interest(s) = clean for Conventional
\* gilts and 8-month-lag Index-linked gilts; for a 3-month-lag Index-linked gilt the
\* difference is clean times index_ratio(s).
C4_DirtyMinusAccrued ==
    (hist # <<>> /\ op = "accrued_interest" /\ hist[1].op = "dirty_price"
       /\ InLife(gilt, args[1])) =>
        /\ ret.status = "ok"
        /\ RSub(hist[1].ret.value, ret.value) =
              IF gilt.lag = 3
              THEN RMul(hist[1].args[1], index_ratio(gilt, args[1], inflation_rate))
              ELSE hist[1].args[1]

C4_Witness ==
    /\ hist # <<>> /\ op = "accrued_interest" /\ hist[1].op = "dirty_price"
    /\ gilt.lag = 3
    /\ ret.status = "ok"
    /\ RSub(hist[1].ret.value, ret.value) # hist[1].args[1]

\* C5: for a conventional gilt with coupon >= 0 and s in [issue_date, maturity],
\* cash_flows(s) is non-empty exactly when s is not after the final ex-dividend date,
\* and then it closes with (maturity, 100), its other entries are one non-negative
\* coupon for each coupon date still receivable, and its amounts sum to 100 plus
\* those coupons, so to at least 100.
C5_CashFlowSum ==
    (op = "cash_flows" /\ gilt.type_ = "Conventional" /\ RSign(gilt.coupon) >= 0
       /\ InLife(gilt, args[1])) =>
        /\ ret.status = "ok"
        /\ LET s  == args[1]
               cf == ret.value
               n  == Len(cf)
               receivable == { c \in CouponDatesOf(gilt) : s <= ex_dividend_date(c) }
           IN  /\ (cf # <<>>) <=> (s <= ex_dividend_date(gilt.maturity))
               /\ cf # <<>> =>
                    /\ RLe(RInt(100), SumAmounts(cf))
                    /\ cf[n] = <<gilt.maturity, RInt(100)>>
                    /\ { cf[i][1] : i \in 1..(n - 1) } = receivable
                    /\ n - 1 = Cardinality(receivable)
                    /\ \A i \in 1..(n - 1) : RSign(cf[i][2]) >= 0
                    /\ \A i \in 2..(n - 1) : cf[i][2] = RDiv(gilt.coupon, RInt(2))
                    /\ SumAmounts(cf) =
                         RAdd(RInt(100), SumAmounts(SubSeq(cf, 1, n - 1)))

C5_Witness ==
    /\ op = "cash_flows" /\ gilt.type_ = "Conventional" /\ ret.status = "ok"
    /\ Len(ret.value) >= 3
    /\ RLt(RInt(100), SumAmounts(ret.value))

-----------------------------------------------------------------------------
(* Properties of BondLadder.solve.                                         *)

\* solve has built and sorted its events
Built == status # "constructed"

\* the solution has met every constraint met so far
Feasible == status \in {"running", "solved"}

Rows == ladder_cash_flows

IsTaxEvent(ev) == ev.kind \in {TAX_YEAR_END, TAX_PAYMENT}
IsIncomingRow(r) == r.description \in {"Coupon", "Sell", "Redemption"}

\* the position of e in a sequence that holds it once
Pos(seq, e) == CHOOSE i \in 1..Len(seq) : seq[i] = e

\* sorted holds the elements of unsorted, those of equal date and kind in the same order
StableOf(sorted, unsorted) ==
    /\ Len(sorted) = Len(unsorted)
    /\ Range(sorted) = Range(unsorted)
    /\ Cardinality(Range(unsorted)) = Len(unsorted)
    /\ \A i, j \in 1..Len(sorted) :
        (i < j /\ sorted[i].date = sorted[j].date /\ sorted[i].kind = sorted[j].kind)
            => Pos(unsorted, sorted[i]) < Pos(unsorted, sorted[j])

\* what the rows and the events tell of an event: date, description and gilt
Tag(x) == <<x.date, x.description, x.tidm>>

RECURSIVE TagsOfRows(_)
TagsOfRows(rows) ==
    IF rows = <<>> THEN <<>>
    ELSE IF Head(rows).description \in {"Deposit", "Interest"} THEN TagsOfRows(Tail(rows))
    ELSE <<Tag(Head(rows))>> \o TagsOfRows(Tail(rows))

RECURSIVE TagsOfEvents(_)
TagsOfEvents(evs) ==
    IF evs = <<>> THEN <<>>
    ELSE IF Head(evs).kind = TAX_YEAR_END THEN TagsOfEvents(Tail(evs))
    ELSE <<Tag(Head(evs))>> \o TagsOfEvents(Tail(evs))

\* C6: the events are processed in non-decreasing date order and, on one date, in the
\* order CASH_FLOW, CONSUMPTION, TAX_YEAR_END, TAX_PAYMENT: the sorted list holds the
\* events built, ordered by date and then kind, those of equal date and kind in their
\* insertion order; the loop takes them in list order, so the rows run in date order
\* and on a single date no coupon, sale or redemption follows a withdrawal.
C6_EventOrder ==
    Built =>
        /\ \A i \in 1..(Len(events) - 1) :
            \/ events[i].date < events[i + 1].date
            \/ events[i].date = events[i + 1].date /\ events[i].kind <= events[i + 1].kind
        /\ StableOf(events, BuildEvents(ladder, solution).events)
        /\ Feasible => TagsOfRows(Rows) = TagsOfEvents(SubSeq(events, 1, pc - 1))
        /\ \A k, m \in 1..Len(Rows) :
            k < m =>
                /\ Rows[k].date <= Rows[m].date
                /\ ~(Rows[k].date = Rows[m].date /\ Rows[k].description = "Withdrawal"
                       /\ IsIncomingRow(Rows[m]))

C6_Witness ==
    /\ status = "solved"
    /\ \E k, m \in 1..Len(Rows) :
        /\ k < m /\ Rows[k].date = Rows[m].date
        /\ Rows[k].description = "Coupon" /\ Rows[m].description = "Withdrawal"
    /\ \E i \in 1..(Len(events) - 1) :
        /\ events[i].date = events[i + 1].date /\ events[i].kind = events[i + 1].kind
        /\ events[i].tidm # events[i + 1].tidm

\* the first year whose 5 April is on or after d
TaxYearOf(d) ==
    IF Date(Civil[d].year, 4, 5) >= d THEN Civil[d].year ELSE Civil[d].year + 1

NumEvents(kind, date) ==
    Cardinality({ i \in 1..Len(events) : events[i].kind = kind /\ events[i].date = date })

\* C7: with marginal_income_tax > 0 solve creates, for each year Y from the first
\* 5 April on or after today through the first 5 April on or after the last
\* consumption date, exactly one TAX_YEAR_END dated 5 April Y and exactly one
\* TAX_PAYMENT dated 31 January Y+1 and no other tax event; with a rate of 0 none.
C7_TaxEvents ==
    Built =>
        IF RSign(ladder.marginal_income_tax) > 0
        THEN /\ \A y \in TaxYearOf(ladder.today)..TaxYearOf(last_consuption(ladder)) :
                    /\ NumEvents(TAX_YEAR_END, Date(y, 4, 5)) = 1
                    /\ NumEvents(TAX_PAYMENT, Date(y + 1, 1, 31)) = 1
             /\ Len(SelectSeq(events, IsTaxEvent)) =
                    2 * (TaxYearOf(last_consuption(ladder)) - TaxYearOf(ladder.today) + 1)
        ELSE SelectSeq(events, IsTaxEvent) = <<>>

C7_Witness ==
    /\ status = "solved"
    /\ RSign(ladder.marginal_income_tax) > 0
    /\ TaxYearOf(ladder.today) > Civil[ladder.today].year
    /\ last_consuption(ladder) = Date(TaxYearOf(ladder.today), 4, 5)
    /\ Len(SelectSeq(events, IsTaxEvent)) = 2

OrZero(x) == IF x = NaN THEN RZero ELSE x

\* C8: in every feasible solution the balance is non-negative at every row: each row
\* adds its incoming and takes its outgoing from the balance of the row before, every
\* incoming amount or interest credit is non-negative, and the balance after every
\* outgoing (CONSUMPTION or TAX_PAYMENT) is non-negative too.
C8_BalanceNonNegative ==
    Feasible =>
        /\ \A k \in 1..Len(Rows) :
            /\ RSign(Rows[k].balance) >= 0
            /\ Rows[k].incoming # NaN => RSign(Rows[k].incoming) >= 0
            /\ Rows[k].outgoing # NaN =>
                    Rows[k].description \in {"Withdrawal", "Tax for year"}
        /\ \A k \in 2..Len(Rows) :
            Rows[k].balance =
                RSub(RAdd(Rows[k - 1].balance, OrZero(Rows[k].incoming)),
                     OrZero(Rows[k].outgoing))
        /\ balance = Rows[Len(Rows)].balance

C8_Witness ==
    /\ status = "solved"
    /\ \E k \in 1..Len(Rows) : Rows[k].description = "Interest" /\ RSign(Rows[k].incoming) > 0
    /\ \E k \in 1..Len(Rows) : Rows[k].description = "Coupon" /\ RSign(Rows[k].incoming) > 0
    /\ \E k \in 1..Len(Rows) : Rows[k].description = "Withdrawal"

TaxEventsOf(evs) == SelectSeq(evs, IsTaxEvent)

\* the taxable income of the rows dated after d0 and not after d1
RECURSIVE IncomeBetween(_, _, _)
IncomeBetween(rows, d0, d1) ==
    IF rows = <<>> THEN RZero
    ELSE IF Head(rows).income # NaN /\ d0 < Head(rows).date /\ Head(rows).date <= d1
    THEN RAdd(Head(rows).income, IncomeBetween(Tail(rows), d0, d1))
    ELSE IncomeBetween(Tail(rows), d0, d1)

\* the tax year end that the payment of 31 January of a year settles, and the one before
TaxYearEndFor(payment_date) == Date(Civil[payment_date].year - 1, 4, 5)
TaxYearStartFor(payment_date) == Date(Civil[payment_date].year - 2, 4, 5)

\* C9: with tax enabled the TAX_YEAR_END and TAX_PAYMENT events of the sorted list
\* strictly alternate, starting with a TAX_YEAR_END and ending with a TAX_PAYMENT; no
\* assertion on tax_due fails: a tax_due is pending exactly between a TAX_YEAR_END and
\* its TAX_PAYMENT and none is pending after the last event; accrued income is 0 after
\* each TAX_YEAR_END, and each TAX_PAYMENT debits marginal_income_tax times the taxable
\* income accrued in the tax year closed by the TAX_YEAR_END before it, that is since
\* the TAX_YEAR_END before that one.
C9_TaxAlternation ==
    (Built /\ ladder.marginal_income_tax # RZero) =>
        /\ status # "raised"
        /\ Len(TaxEventsOf(events)) % 2 = 0
        /\ \A i \in 1..Len(TaxEventsOf(events)) :
            TaxEventsOf(events)[i].kind =
                IF i % 2 = 1 THEN TAX_YEAR_END ELSE TAX_PAYMENT
        /\ Feasible =>
            /\ (tax_due # None) <=> (Len(TaxEventsOf(SubSeq(events, 1, pc - 1))) % 2 = 1)
            /\ (pc > Len(events) => tax_due = None)
            /\ (pc > 1 /\ events[pc - 1].kind = TAX_YEAR_END) =>
                    accrued_income = RZero
        /\ \A k \in 1..Len(Rows) :
            Rows[k].description = "Tax for year" =>
                Rows[k].outgoing =
                    RMul(IncomeBetween(Rows, TaxYearStartFor(Rows[k].date),
                                       TaxYearEndFor(Rows[k].date)),
                         ladder.marginal_income_tax)

C9_Witness ==
    /\ status = "solved"
    /\ Cardinality({ k \in 1..Len(Rows) : Rows[k].description = "Tax for year" }) >= 2
    /\ \E k, m \in 1..Len(Rows) :
        /\ k # m
        /\ Rows[k].description = "Tax for year" /\ RSign(Rows[k].outgoing) > 0
        /\ Rows[m].description = "Tax for year" /\ Rows[m].outgoing # Rows[k].outgoing

\* the date of the last TAX_YEAR_END of the events
LastTaxYearEnd(evs) ==
    evs[CHOOSE i \in 1..Len(evs) :
            /\ evs[i].kind = TAX_YEAR_END
            /\ \A j \in (i + 1)..Len(evs) : evs[j].kind # TAX_YEAR_END].date

\* C10: with tax enabled, once every event is processed the accrued taxable income
\* is below 0.01 (it is 0) and the assertion on it holds: every row that carries
\* taxable income (coupon, sale, interest) is dated on or before the final
\* TAX_YEAR_END, and no CASH_FLOW event comes after it in the list.
C10_ResidualIncome ==
    (Built /\ ladder.marginal_income_tax # RZero) =>
        /\ status # "raised"
        /\ \A j \in 1..Len(events) :
            events[j].kind = CASH_FLOW =>
                \E i \in (j + 1)..Len(events) : events[i].kind = TAX_YEAR_END
        /\ \A k \in 1..Len(Rows) :
            Rows[k].income # NaN => Rows[k].date <= LastTaxYearEnd(events)
        /\ (Feasible /\ pc > Len(events)) =>
            /\ RLt(accrued_income, <<1, 100>>)
            /\ accrued_income = RZero

C10_Witness ==
    /\ status = "solved"
    /\ ladder.marginal_income_tax # RZero
    /\ accrued_income = RZero
    /\ \E k \in 1..Len(Rows) :
        /\ Rows[k].income # NaN /\ RSign(Rows[k].income) > 0
        /\ Rows[k].date = LastTaxYearEnd(events)
    /\ \E g \in Range(ladder.issued) :
        /\ g.tidm \in Held(ladder)
        /\ RSign(solution.quantity[g.tidm]) > 0
        /\ g.maturity > last_consuption(ladder)


-----------------------------------------------------------------------------
(* Properties of the price books.                                          *)

\* the times of the prices the book was given
SuppliedTimes ==
    { supplied[i].dt : i \in { j \in 1..Len(supplied) : supplied[j].price # None } }

SetMax(S) == CHOOSE x \in S : \A y \in S : y <= x

\* C11: after any sequence of price additions, in any order of their times, the
\* as-of time of the book (get_prices_date) is the latest of the times supplied, so
\* that it never decreases as prices are added, for gilts.GiltPrices (add_price,
\* from_last_close) and for lse.GiltPrices (the rows of the CSV).
C11_AsOfIsLatest ==
    (bstatus.call \in {"add_price", "from_last_close", "lse.GiltPrices"}
        /\ SuppliedTimes # {})
        => book.datetime = SetMax(SuppliedTimes)

\* the entries of the book's log that recorded a price, and those of one TIDM or ISIN
Recorded == { i \in 1..Len(supplied) : supplied[i].price # None }
\* the price of the requested kind when present, otherwise lastprice
KindOrLast(data, kind) == IF data[kind] = None THEN data.lastprice ELSE data[kind]

\* C17 as stated: in from_latest the price recorded for an instrument is the value of
\* the requested kind when present, otherwise lastprice; an instrument with neither
\* is skipped and then has no price and no ISIN-to-TIDM entry in the book, the as-of
\* time is unaffected, and the loop goes on with the next instrument.
C17_AsStated ==
    bstatus.call = "from_latest" =>
        /\ \A i \in 1..Len(supplied) :
            /\ supplied[i].price = KindOrLast(supplied[i].data, bstatus.kind)
            /\ supplied[i].price = None =>
                /\ supplied[i].tidm \notin DOMAIN book.prices
                /\ supplied[i].isin \notin DOMAIN book.tidms
            /\ supplied[i].price # None =>
                book.prices[supplied[i].tidm] = supplied[i].price
        /\ book.datetime = IF Recorded = {} THEN MinDateTime ELSE bstatus.dt
        /\ bstatus.state = "raised" => (feed # <<>> /\ from_latest_raises(Head(feed)))

\* C17 amended: as stated, but the skipped instrument gets no ISIN-to-TIDM entry from
\* its item: the map keeps the entries of the bundled map and of the recorded items.
C17_FromLatest ==
    bstatus.call = "from_latest" =>
        /\ \A i \in 1..Len(supplied) :
            /\ supplied[i].price = KindOrLast(supplied[i].data, bstatus.kind)
            /\ supplied[i].price = None => supplied[i].tidm \notin DOMAIN book.prices
            /\ supplied[i].price # None =>
                /\ book.prices[supplied[i].tidm] = supplied[i].price
                /\ book.tidms[supplied[i].isin] = supplied[i].tidm
        /\ DOMAIN book.prices = { supplied[i].tidm : i \in Recorded }
        /\ DOMAIN book.tidms =
                DOMAIN bstatus.tidms0 \cup { supplied[i].isin : i \in Recorded }
        /\ \A x \in DOMAIN bstatus.tidms0 \ { supplied[i].isin : i \in Recorded } :
                book.tidms[x] = bstatus.tidms0[x]
        /\ book.datetime = IF Recorded = {} THEN MinDateTime ELSE bstatus.dt
        /\ bstatus.state = "raised" => (feed # <<>> /\ from_latest_raises(Head(feed)))

C17_Witness ==
    /\ bstatus.call = "from_latest" /\ bstatus.state = "returned"
    /\ bstatus.kind = "midPrice"
    /\ Len(supplied) = 2
    /\ supplied[1].price = None /\ supplied[1].isin \in DOMAIN book.tidms
    /\ supplied[2].price # None /\ supplied[2].data.midPrice = None
    /\ supplied[2].price = supplied[2].data.lastprice

-----------------------------------------------------------------------------
(* Properties of the settlement date range.                                *)

\* the pricing operations that take a settlement date, which is their last argument
SettlementOps ==
    { "coupon_dates", "accrued_interest", "dirty_price", "clean_price",
      "cash_flows", "ytm", "value" }

SettlementOf == args[Len(args)]

\* C16 as stated: every pricing operation that takes a settlement date fails
\* when the settlement date is before the issue date or after the maturity.
C16_AsStated ==
    (op \in SettlementOps
        /\ (SettlementOf < gilt.issue_date \/ SettlementOf > gilt.maturity))
        => ret = Raised

\* C16: every pricing operation that takes a settlement date fails when the
\* settlement date is before the issue date; coupon_dates, accrued_interest,
\* dirty_price, clean_price and the ytm of a conventional gilt fail when it is
\* after the maturity, where cash_flows returns no flows and value returns the
\* present value of none.
C16_SettlementRange ==
    op \in SettlementOps =>
        /\ (SettlementOf < gilt.issue_date
                /\ SettlementOf <= ex_dividend_date(gilt.maturity))
            => ret = Raised
        /\ (SettlementOf > gilt.maturity
                /\ \/ op \in { "coupon_dates", "accrued_interest", "dirty_price",
                                "clean_price" }
                   \/ op = "ytm" /\ gilt.type_ = "Conventional")
            => ret = Raised
        /\ (SettlementOf > gilt.maturity /\ op = "cash_flows")
            => ret = Returned(<<>>)
        /\ (SettlementOf > gilt.maturity /\ op = "value")
            => ret = Returned("npv")

\* the yield of a conventional gilt asked for a settlement date after its maturity
C16_Witness ==
    /\ op = "ytm"
    /\ gilt.type_ = "Conventional"
    /\ SettlementOf > gilt.maturity
    /\ ret = Raised

-----------------------------------------------------------------------------
(* Properties of the business-day calendar.                                *)

BusinessDaysIn(S) == { x \in S : is_business_day(x) }

\* C18: prev_business_day(d) is the latest business day before d and
\* next_business_day(d) the earliest after d; for a business day b,
\* next_business_day(prev_business_day(b)) = b = prev_business_day(next_business_day(b));
\* ex_dividend_date(c) is the seventh business day before c, which is before c,
\* and is 2004-08-26 for the coupon date 2004-09-07.
C18_BusinessDays ==
    /\ (op = "prev_business_day")
        => /\ ret.value < args[1]
           /\ is_business_day(ret.value)
           /\ BusinessDaysIn((ret.value + 1)..(args[1] - 1)) = {}
    /\ (op = "next_business_day")
        => /\ ret.value > args[1]
           /\ is_business_day(ret.value)
           /\ BusinessDaysIn((args[1] + 1)..(ret.value - 1)) = {}
    /\ (op \in { "prev_business_day", "next_business_day" }
            /\ hist # <<>> /\ is_business_day(hist[1].args[1]))
        => ret.value = hist[1].args[1]
    /\ (op = "ex_dividend_date")
        => /\ ret.value < args[1]
           /\ is_business_day(ret.value)
           /\ Cardinality(BusinessDaysIn(ret.value..(args[1] - 1))) = 7
           /\ (args[1] = Date(2004, 9, 7)) => ret.value = Date(2004, 8, 26)

\* the ex-dividend date of the coupon of 2004-09-07, across the bank holiday of
\* 2004-08-30
C18_Witness ==
    /\ op = "ex_dividend_date"
    /\ args[1] = Date(2004, 9, 7)
    /\ ret = Returned(Date(2004, 8, 26))
    /\ Date(2004, 8, 30) \in BankHolidays

-----------------------------------------------------------------------------
(* Properties of the coupon of a name.                                     *)

\* the value of a fraction, and the glyph of the fraction written in ASCII
FractionValue(fraction) ==
    IF fraction = <<>> THEN RZero
    ELSE IF fraction \in { <<"U+215B">>, <<"1", "/", "8">> } THEN <<1, 8>>
    ELSE IF fraction \in { <<"U+00BC">>, <<"1", "/", "4">> } THEN <<1, 4>>
    ELSE IF fraction \in { <<"U+215C">>, <<"3", "/", "8">> } THEN <<3, 8>>
    ELSE IF fraction \in { <<"U+00BD">>, <<"1", "/", "2">> } THEN <<1, 2>>
    ELSE IF fraction \in { <<"U+215D">>, <<"5", "/", "8">> } THEN <<5, 8>>
    ELSE IF fraction \in { <<"U+00BE">>, <<"3", "/", "4">> } THEN <<3, 4>>
    ELSE <<7, 8>>

GlyphsOf(fraction) ==
    { <<c>> : c \in { x \in Glyphs : FractionValue(<<x>>) = FractionValue(fraction) } }

\* C13: for a name made of an integer units part and a fraction of the enumerated
\* set, _parse_coupon returns the units plus the value of the fraction (1/8 = 0.125,
\* 1/4 = 0.25, 3/8 = 0.375, 1/2 = 0.5, 5/8 = 0.625, 3/4 = 0.75, 7/8 = 0.875), the
\* ASCII form of a fraction giving the same coupon as its glyph, and the units
\* alone when the name has no fraction.
C13_ParseCoupon ==
    (icall.op = "_parse_coupon" /\ icall.ret.status = "ok") =>
        \A units \in UnitsParts, sep \in Separators, fraction \in Fractions,
           pct \in PercentSigns :
            (sep \in SeparatorsOf(units)
                /\ icall.args[1] = Name(units, sep, fraction, pct)) =>
                /\ icall.ret.value
                     = RAdd(RInt(float_digits(units)), FractionValue(fraction))
                /\ \A glyph \in GlyphsOf(fraction) :
                     ~parse_coupon_raises(Name(units, <<>>, glyph, pct))
                        => icall.ret.value = parse_coupon(Name(units, <<>>, glyph, pct))

-----------------------------------------------------------------------------
(* Properties of the universe of issued gilts.                             *)

IsIndexLinkedEntry(entry) == rstrip(entry.INSTRUMENT_TYPE) # "Conventional"

\* the lag that the type of an index-linked record declares
DeclaredLag(entry) == type_lag(rstrip(entry.INSTRUMENT_TYPE))

\* the record of the file that a gilt of the universe was made of
EntryOf(g) == entries[CHOOSE i \in 1..Len(entries) : entries[i].ISIN_CODE = g.isin]

\* C20: the construction of the universe rejects every index-linked record whose
\* declared lag (3 or 8 months) is not the lag of its first issue date (3 months
\* from 2005-09-22 on, 8 before), so that every index-linked gilt of the universe
\* has the lag its record declares.
C20_LagChecked ==
    issued.status = "constructed" =>
        /\ \A i \in 1..Len(entries) :
              IsIndexLinkedEntry(entries[i])
                  => DeclaredLag(entries[i])
                       = (IF entries[i].FIRST_ISSUE_DATE >= Date(2005, 9, 22) THEN 3 ELSE 8)
        /\ \A i \in 1..Len(issued.all) :
              issued.all[i].type_ = "Index-linked"
                  => issued.all[i].lag = DeclaredLag(EntryOf(issued.all[i]))

\* a gilt past its final ex-dividend date on the settlement date, if one is given
Expired(g, settlement_date) ==
    settlement_date # NoDate /\ settlement_date > ex_dividend_date(g.maturity)

\* C12 as stated: filter yields exactly the gilts that are not expired on the
\* settlement date and whose selection type is of the kind asked for, the
\* selection type being Conventional for conventional gilts and for 3-month-lag
\* index-linked gilts of fixed redemption, and Index-linked for every other
\* index-linked gilt, those of 8-month lag included.
C12_AsStated ==
    icall.op = "filter" =>
        LET Stated(g) ==
                IF g.type_ = "Index-linked" /\ g.lag = 3
                       /\ is_redemption_fixed(g, issued.rpi_series)
                THEN "Conventional" ELSE g.type_
            Keep(g) ==
                /\ ~Expired(g, icall.args[2])
                /\ Stated(g) \in types(icall.args[1])
        IN  icall.ret = SelectSeq(issued.all, Keep)

\* C12: filter yields exactly the gilts that are not expired on the settlement
\* date and whose selection type is of the kind asked for, the selection type
\* being Conventional for conventional gilts and for index-linked gilts of fixed
\* redemption, whatever their lag, and Index-linked for every other index-linked
\* gilt; the kind Both yields every gilt that is not expired.
C12_Filter ==
    icall.op = "filter" =>
        LET Selection(g) ==
                IF g.type_ = "Index-linked" /\ is_redemption_fixed(g, issued.rpi_series)
                THEN "Conventional" ELSE g.type_
            Keep(g) ==
                /\ ~Expired(g, icall.args[2])
                /\ Selection(g) \in types(icall.args[1])
            Live(g) == ~Expired(g, icall.args[2])
        IN  /\ icall.ret = SelectSeq(issued.all, Keep)
            /\ icall.args[1] = "None" => icall.ret = SelectSeq(issued.all, Live)

\* the conventional gilts asked for on a settlement date: an 8-month-lag gilt of
\* fixed redemption is yielded and a gilt of the universe has expired
C12_Witness ==
    /\ icall.op = "filter"
    /\ icall.args = <<"False", Date(2006, 8, 30)>>
    /\ \E i \in 1..Len(icall.ret) :
         /\ icall.ret[i].type_ = "Index-linked"
         /\ icall.ret[i].lag = 8
    /\ Len(icall.ret) < Len(issued.all)

-----------------------------------------------------------------------------
(* Properties of the yield curve.                                          *)

\* the gilts of the rows of a yield curve, in the order of the rows
CurveGilts ==
    filter(issued.all, icall.args[1], next_business_day(issued.close_date),
           issued.rpi_series)

\* the real yield of a nominal yield y, and both in per cent
RealYield(y) == RSub(RDiv(RAdd(ROne, y), RAdd(ROne, inflation_rate)), ROne)

PerCent(y) == RMul(y, RInt(100))

\* C19: for each value of the selector (False, True, None) the yield curve reports
\* the real yield (1 + y)/(1 + inflation) - 1 for every index-linked gilt of its
\* rows and the nominal yield y, as ytm found it, for every conventional gilt.
C19_RealYields ==
    (icall.op = "yield_curve" /\ icall.ret.status = "ok") =>
        /\ Len(icall.ret.value) = Len(CurveGilts)
        /\ \A i \in 1..Len(CurveGilts) :
              icall.ret.value[i].Yield
                = IF CurveGilts[i].type_ = "Index-linked"
                  THEN PerCent(RealYield(icall.args[2][i]))
                  ELSE PerCent(icall.args[2][i])

-----------------------------------------------------------------------------
(* Properties of the ladder's price book and of the solver's status.       *)

\* a gilt for which the price book lacks the TIDM of its ISIN or the price of its TIDM
Unpriced(l, g) ==
    \/ lookup_tidm_raises(l.prices, g.isin)
    \/ get_price_raises(l.prices, l.prices.tidms[g.isin])

\* C14: when a gilt that passes the filter of solve has no TIDM for its ISIN or no
\* price for its TIDM in the price book, solve leaves that gilt out of the
\* candidates and goes on with the others; it does not fail on the missing price.
C14_MissingPriceSkipped ==
    Built =>
        \A g \in Range(Issued_filter(ladder.issued, next_business_day(ladder.today))) :
            Unpriced(ladder, g)
                => /\ status # "KeyError"
                   /\ \A i \in 1..Len(events) : events[i].tidm # g.tidm

\* C15: when the solver reports a status other than optimal, solve fails on it and
\* makes no ladder: buy_df and cash_flow_df are what they were before the call,
\* None on a fresh BondLadder, and cost, withdrawal_rate and yield_ are not set.
C15_NotOptimal ==
    [][ (lp_status' # lp_status
            /\ lp_status' \notin { LpStatusOptimal, LpStatusNotSolved })
           => /\ status' = "not_optimal"
              /\ buy_df' = buy_df
              /\ cash_flow_df' = cash_flow_df
              /\ attributes' = attributes
              /\ (attributes = {})
                   => (buy_df' = None /\ cash_flow_df' = None /\ attributes' = {}) ]_vars

\* a call that fails on the status of the solver after a call that made a ladder:
\* the results of the earlier call are still there
C15_Witness ==
    /\ status = "not_optimal"
    /\ lp_status = LpStatusInfeasible
    /\ buy_df = DataFrame
    /\ cash_flow_df = DataFrame
    /\ "cost" \in attributes

-----------------------------------------------------------------------------
(* Properties of the yield to maturity.                                    *)

\* C24: for every conventional gilt and every settlement date from the issue date
\* to the maturity, ytm reaches its yield formula without failing: after the
\* adjustment of the first period the previous coupon date is before the
\* settlement date, which is no later than the next coupon date, the period
\* between the two has 181 to 184 days, and where no coupon follows the next one
\* (n = 0) the settlement date is at least one day before the next coupon date.
C24_YtmReachesFormula ==
    (op = "ytm" /\ gilt.type_ = "Conventional" /\ InLife(gilt, SettlementOf))
        => /\ ret # Raised
           /\ LET Holds(p) ==
                      /\ p.prev < SettlementOf
                      /\ SettlementOf <= p.next
                      /\ p.next - p.prev \in 181..184
                      /\ (p.n = 0) => (p.next - SettlementOf > 0)
              IN  Holds(ytm_period(gilt, SettlementOf))

-----------------------------------------------------------------------------
(* Properties of the list of cash flows.                                   *)

\* the dates of a list of cash flows never go back
NonDecreasing(cf) == \A i \in 1..(Len(cf) - 1) : cf[i][1] <= cf[i + 1][1]

\* C23: for a gilt whose maturity is at least 60 days after its issue date and a
\* settlement date from the issue date to the maturity, cash_flows returns the
\* empty list exactly when the settlement date is after the ex-dividend date of
\* the maturity, and otherwise a list of at least two entries whose dates never go
\* back, whose last entry is the redemption (maturity, 100) and whose entry before
\* it is the final dividend, dated maturity too; so a gilt that passes the filter
\* of solve has cash flows, and its last dividend is handled before its redemption.
C23_CashFlows ==
    (op = "cash_flows"
        /\ InLife(gilt, SettlementOf)
        /\ gilt.maturity - gilt.issue_date >= min_coupon_days)
        => /\ ret # Raised
           /\ (ret.value = <<>>) <=> (SettlementOf > ex_dividend_date(gilt.maturity))
           /\ (ret.value # <<>>)
                => LET Shaped(cf, n) ==
                           /\ n >= 2
                           /\ NonDecreasing(cf)
                           /\ cf[n][1] = gilt.maturity
                           /\ cf[n - 1][1] = gilt.maturity
                           /\ (gilt.type_ = "Conventional")
                                => /\ cf[n][2] = RInt(100)
                                   /\ RSign(cf[n - 1][2]) > 0
                                   /\ (n >= 3) => (cf[n - 1][2] = RDiv(gilt.coupon, RInt(2)))
                   IN  Shaped(ret.value, Len(ret.value))

\* the cash flows of a conventional gilt that pays one dividend, asked for on the
\* ex-dividend date of its maturity: the dividend and the redemption
C23_Witness ==
    /\ op = "cash_flows"
    /\ gilt.type_ = "Conventional"
    /\ gilt.maturity - gilt.issue_date = min_coupon_days
    /\ SettlementOf = ex_dividend_date(gilt.maturity)
    /\ ret # Raised
    /\ Len(ret.value) = 2
    /\ ret.value[2] = <<gilt.maturity, RInt(100)>>
    /\ ret.value[1][1] = gilt.maturity

-----------------------------------------------------------------------------
(* Properties of the fixing of the redemption.                             *)

\* the months between the month of the maturity and the month whose RPI fixes the
\* redemption
FixingLag(g) ==
    IF g.lag = 8 THEN 8 ELSE IF Civil[g.maturity].day > 1 THEN 2 ELSE 3

\* the RPI series has the month that fixes the redemption
FixingPublished(g) ==
    lookup_index(g.rpi_series.last_date) >= lookup_index(g.maturity) - FixingLag(g)

\* this call and the one before it are calls of the operation o
Repeated(o) == op = o /\ hist # <<>> /\ hist[1].op = o

\* C21: for an index-linked gilt of either lag whose redemption is fixed, that is
\* whose RPI series has the month of fixed_date(maturity), the index ratio of the
\* maturity and the redemption cash flow are the same for every assumed rate of
\* inflation; fixed_date(maturity) is the first day of the month 2 months before
\* the maturity when the maturity is after the first of its month, 3 months before
\* when it is the first, and 8 months before for the lag of 8 months.
C21_RedemptionFixed ==
    /\ (op = "redemption_fixed")
        => /\ Civil[ret.value].day = 1
           /\ lookup_index(ret.value) = lookup_index(gilt.maturity) - FixingLag(gilt)
    /\ (op = "is_redemption_fixed") => (ret.value = FixingPublished(gilt))
    /\ (Repeated("index_ratio") /\ FixingPublished(gilt)) => (ret = hist[1].ret)
    /\ (Repeated("cash_flows") /\ FixingPublished(gilt))
        => /\ Len(ret.value) = 2
           /\ Len(hist[1].ret.value) = 2
           /\ ret.value[2] = hist[1].ret.value[2]

\* the index ratio of the maturity, which is the first of its month, found the same
\* at two rates of inflation when the month that fixes it is the last one published
C21_Witness ==
    /\ Repeated("index_ratio")
    /\ gilt.lag = 3
    /\ Civil[gilt.maturity].day = 1
    /\ lookup_index(gilt.rpi_series.last_date) = lookup_index(gilt.maturity) - 3
    /\ args[2] # hist[1].args[2]
    /\ ret = hist[1].ret

-----------------------------------------------------------------------------
(* Properties of the optional sales.                                       *)

\* the events of one description about the holding of TIDM t
EventsOf(t, description) ==
    { i \in 1..Len(events) : events[i].tidm = t /\ events[i].description = description }

\* the sum of the sell variables of t for the dates of a set
RECURSIVE SumSold(_, _)
SumSold(t, dates) ==
    IF dates = {} THEN RZero
    ELSE LET Of(cd) == RAdd(solution.sell[t][cd], SumSold(t, dates \ {cd}))
         IN  Of(CHOOSE cd \in dates : TRUE)

\* what is left of the holding of t after the sales up to the date d
Remaining(t, d) ==
    RSub(solution.quantity[t],
         SumSold(t, { events[i].date : i \in { j \in EventsOf(t, "Sell") : events[j].date <= d } }))

\* the amount per unit that g pays on the date d before its redemption
Dividend(g, d, settlement_date) ==
    LET Of(cf) == cf[CHOOSE i \in 1..(Len(cf) - 1) : cf[i][1] = d][2]
    IN  Of(Gilt_cash_flows(g, settlement_date))

\* C22: for every holding of solve, what is left after each sale, the quantity
\* bought less all that was sold so far, is constrained not to be negative, so
\* that no more is sold than was bought; every coupon and the redemption dated on
\* or after a sale is paid on what is left and not on the quantity bought; and
\* there are sell variables only when the lag is more than 0.
C22_RemainingQuantity ==
    (Built /\ status \notin {"raised", "KeyError"}) =>
        \A g \in Range(ladder.issued) :
            /\ \A i \in EventsOf(g.tidm, "Sell") :
                /\ ladder.lag > 0
                /\ events[i].operand[1] = RMul(solution.sell[g.tidm][events[i].date], solution.value)
                /\ Feasible => RSign(Remaining(g.tidm, events[i].date)) >= 0
            /\ \A cd \in ConsumptionDates :
                solution.sell[g.tidm][cd] # RZero
                    => /\ ladder.lag > 0
                       /\ \E i \in EventsOf(g.tidm, "Sell") : events[i].date = cd
            /\ \A i \in EventsOf(g.tidm, "Coupon") :
                events[i].operand[1]
                    = RMul(Remaining(g.tidm, events[i].date),
                           Dividend(g, events[i].date, next_business_day(ladder.today)))
            /\ \A i \in EventsOf(g.tidm, "Redemption") :
                events[i].operand[1] = RMul(Remaining(g.tidm, events[i].date), RInt(100))

\* a ladder that was solved with two sales of a holding, which together sell all
\* that was bought, and a coupon on the date of the second, paid on nothing
C22_Witness ==
    /\ status = "solved"
    /\ solution.quantity["GA"] = RInt(46)
    /\ solution.sell["GA"][Date(2005, 9, 6)] = RInt(23)
    /\ solution.sell["GA"][Date(2005, 9, 7)] = RInt(23)
    /\ \E i \in EventsOf("GA", "Coupon") :
          events[i].date = Date(2005, 9, 7) /\ events[i].operand[1] = RZero
=============================================================================
